---- MODULE Spec2Model ----
(***************************************************************************)
(* PACC threading core: the thread pool of PACC/Threading/ThreadPool.cpp   *)
(* (SlaveThread::main, ThreadPool::~ThreadPool, ThreadPool::push) and the  *)
(* counting semaphore of PACC/Threading/Semaphore.cpp.                     *)
(*                                                                         *)
(* Every thread is a small program counter machine; one action is one      *)
(* statement (or one run of statements executed under the same lock).      *)
(* A thread blocked in Condition::wait has released its mutex and sits at  *)
(* a "..._wait" label; signal/broadcast move it to "..._woken", from where *)
(* it must re-acquire the mutex before it continues.                       *)
(***************************************************************************)
EXTENDS Naturals, Integers, Sequences, FiniteSets, TLC

\* ---------------------------------------------------------------- bounds
NumWorkers  == 2      \* K, the inSlaves argument of the constructor
NumTasks    == 3      \* Task objects owned by the caller
MaxPushes   == 3      \* total number of push() calls
MaxSpurious == 1      \* spurious wake-ups of Condition::wait in one run
LivePushes  == 2      \* push() calls in the runs checked for liveness
NumSemThreads == 2    \* threads using the semaphore
MaxSemOps   == 4      \* total number of post/tryWait/wait calls
MaxInitCount == 1     \* largest initial count of the semaphore

\* ---------------------------------------------------------------- threads
\* Thread identities; 0 stands for "no thread" (a free mutex) and, for
\* tasks, "no task" (a null Task*).
Workers  == 1..NumWorkers
Producer == NumWorkers + 1
Waiter   == NumWorkers + 2
Dtor     == NumWorkers + 3
Threads  == 1..(NumWorkers + 3)
Tasks    == 1..NumTasks
SemThreads == 1..NumSemThreads
\* A further thread that only posts; SemUsers are all threads of the semaphore.
SemPoster  == NumSemThreads + 1
SemUsers   == 1..(NumSemThreads + 1)

VARIABLES
    pc,          \* position of every thread
    mTasks,      \* ThreadPool::mTasks, the queue of Task*
    poolOwner,   \* holder of the pool mutex
    taskOwner,   \* holder of each task's mutex
    mRunning,    \* Task::mRunning
    mCompleted,  \* Task::mCompleted
    mCancel,     \* SlaveThread::mCancel
    lTask,       \* the local lTask / inTask of every thread
    dI,          \* loop index i of the destructor's for loops
    spurious,    \* spurious wake-ups so far
    inSlaves,    \* the constructor's argument: size() of the pool
    pushLimit,   \* push() calls the producer makes in this run
    \* history (never read by the program)
    pushOrder,   \* tasks in the order push() appended them
    popOrder,    \* tasks in the order workers dequeued them
    pushed,      \* per task: push() calls that have returned
    runCount,    \* per task: false->true transitions of mRunning
    doneCount,   \* per task: completed transitions
    lostSignal,  \* tasks whose push() signalled while every worker was busy
    popEmpty,    \* a worker executed front()/pop() on an empty queue
    waiterBlocked, \* the waiting caller has blocked in Condition::wait
    wakeLog,     \* per worker: what followed its latest return from mPool->wait()
    dtorPending, \* length of the queue when the destructor took the pool lock
    cancelledRunning, \* workers whose mCancel was set while their task was running
    cancelSkipped, \* workers that found mCancel set at line 72 with tasks in the queue
    \* the semaphore
    mCount,      \* Semaphore::mCount
    mWaiters,    \* Semaphore::mWaiters
    semOwner,    \* holder of the semaphore's mutex
    spc,         \* position of every thread using the semaphore
    lReturn,     \* the local lReturn of every thread
    timed,       \* per thread: inMaxTime > 0 in its call of wait
    inCount,     \* the count the semaphore was constructed with
    semCalls,    \* calls started so far
    semSpurious, \* spurious wake-ups so far
    semSignals,  \* history: calls of Condition::signal made by post
    inLock,      \* the inLock argument of every thread's call
    semLog       \* history: <<operation, result>> in the order of their critical sections

\* Threading::Exception
VARIABLES
    excBuild,    \* the build: which branch of the #ifdef of lines 85-90 is compiled
    excArg,      \* argument of the latest convertNativeError call, -1 before the first
    excCode,     \* result of the latest convertNativeError call
    mCode,       \* Exception::mCode
    mNativeCode, \* Exception::mNativeCode
    excWhat,     \* what() of the exception
    excMessage   \* result of the latest getMessage call

\* Socket::UDPServer
VARIABLES
    upc,          \* position of the caller of acceptDatagrams
    mHalt,        \* UDPServer::mHalt
    lHalt,        \* lHalt of acceptDatagrams
    udpCount,     \* datagrams received or failed since the server was created
    udpReported,  \* errors written to cerr (line 69)
    udpLast,      \* how the latest pass through the try block ended
    udpHaltBefore \* halt was requested before the current call of acceptDatagrams

\* XML::Streamer
VARIABLES
    mTags,             \* Streamer::mTags, a stack of <<name, indent>>; the top is the last element
    mClosed,           \* Streamer::mClosed: the start tag of the top tag has received its ">"
    mOneAttribute,     \* Streamer::mOneAttribute
    mIndentAttributes, \* Streamer::mIndentAttributes
    mIndentWidth,      \* Streamer::mIndentWidth
    mStream,           \* what was written to Streamer::mStream, a sequence of tokens
    xpc,               \* "ready", or "aborted" once an assertion has failed
    tagContent,        \* history: for each tag of mTags, whether it has received content
    xmlCalls,          \* history: calls made on the streamer
    xmlOp              \* history: the latest call

\* QRandSequencer
VARIABLES
    mDimensionality,   \* QRandSequencer::mDimensionality
    mBases,            \* QRandSequencer::mBases
    mPermutations,     \* QRandSequencer::mPermutations; mPermutations[i][j] of the code is [i+1][j+1]
    mCounters,         \* QRandSequencer::mCounters, little-endian digits, same shift of the indices
    qCount,            \* QRandSequencer::mCount
    qpc,               \* "ready", or "undefined" after an access outside a vector
    qrState,           \* the string returned by the latest getState, kept by the caller
    qrSnap,            \* history: the members at the latest getState
    qrOut,             \* outValues and outMaxValues of the latest generateSequence
    wasReset,          \* history: reset has been called on the sequencer
    qrOp               \* history: the latest call

poolVars == <<pc, mTasks, poolOwner, taskOwner, mRunning, mCompleted, mCancel,
              lTask, dI, spurious, inSlaves, pushLimit, pushOrder, popOrder, pushed, runCount,
              doneCount, lostSignal, popEmpty, waiterBlocked, wakeLog, dtorPending,
              cancelledRunning, cancelSkipped>>

semVars == <<mCount, mWaiters, semOwner, spc, lReturn, timed, inCount, semCalls,
             semSpurious, semSignals, inLock, semLog>>

excVars == <<excBuild, excArg, excCode, mCode, mNativeCode, excWhat, excMessage>>

udpVars == <<upc, mHalt, lHalt, udpCount, udpReported, udpLast, udpHaltBefore>>

xmlVars == <<mTags, mClosed, mOneAttribute, mIndentAttributes, mIndentWidth, mStream, xpc,
             tagContent, xmlCalls, xmlOp>>

qrVars == <<mDimensionality, mBases, mPermutations, mCounters, qCount, qpc, qrState, qrSnap,
            qrOut, wasReset, qrOp>>

libVars == <<excVars, udpVars, xmlVars, qrVars>>

vars == <<poolVars, semVars, libVars>>

\* ---------------------------------------------------------------- helpers
\* Condition::signal on the pool condition: wakes one blocked worker, any
\* of them; with none blocked the signal is lost.
SignalPool(p) ==
    IF \E w \in Workers : p[w] = "w_wait"
    THEN {[p EXCEPT ![w] = "w_woken"] : w \in {v \in Workers : p[v] = "w_wait"}}
    ELSE {p}

\* Condition::broadcast on the pool condition: wakes every blocked worker.
BroadcastPool(p) ==
    [th \in Threads |-> IF th \in Workers /\ p[th] = "w_wait" THEN "w_woken" ELSE p[th]]

\* Condition::broadcast on task t: wakes every thread blocked on t.
BroadcastTask(p, t) ==
    [th \in Threads |->
        IF th = Waiter /\ p[th] = "x_wait" /\ lTask[th] = t THEN "x_woken"
        ELSE IF th = Dtor /\ p[th] = "d_wait" /\ lTask[th] = t THEN "d_woken"
        ELSE p[th]]

RunningBroadcast_none(p, t) == p

\* line 81: lTask->broadcast()
RunningBroadcast(p, t) == BroadcastTask(p, t)

CompletedBroadcast_none(p, t) == p

\* line 89: lTask->broadcast()
CompletedBroadcast(p, t) == BroadcastTask(p, t)

\* Task::reset
Reset(f, t) == [f EXCEPT ![t] = FALSE]

\* A push that appends the task with the flags of its previous run.
PushResets_none(f, t) == f

\* line 138: inTask.reset(), the first statement of push
PushResets(f, t) == Reset(f, t)

Enqueue_front(q, t) == <<t>> \o q

\* line 141: mTasks.push(&inTask)
Enqueue(q, t) == Append(q, t)

\* A worker that takes the entry pushed last instead of the oldest one.
Front_back(q) == IF q = <<>> THEN 0 ELSE q[Len(q)]

\* line 75: mPool->mTasks.front(); on an empty queue the behaviour is undefined and the
\* model yields the null task and raises popEmpty.
Front(q) == IF q = <<>> THEN 0 ELSE Head(q)

Dequeue_keep(q) == q

\* A pop that removes the entry behind the head as well.
Dequeue_two(q) == IF Len(q) <= 1 THEN <<>> ELSE Tail(Tail(q))

\* line 76: mPool->mTasks.pop()
Dequeue(q) == IF q = <<>> THEN q ELSE Tail(q)

\* line 115: mTasks.back()
Back(q) == q[Len(q)]

\* An if in place of the while of line 71: no new test after a wake-up.
ShouldWait_once(w) == mTasks = <<>> /\ ~mCancel[w] /\ wakeLog[w] # "woken"

ShouldWait_offByOne(w) == Len(mTasks) <= 1 /\ ~mCancel[w]

\* line 71: while(mPool->mTasks.empty() && !mCancel) mPool->wait();
ShouldWait(w) == mTasks = <<>> /\ ~mCancel[w]

TaskUnlock_skip(o, t) == o

\* line 82: lTask->unlock()
TaskUnlock(o, t) == [o EXCEPT ![t] = 0]

PoolUnlock_skip(o) == o

\* line 77: mPool->unlock()
PoolUnlock(o) == 0

Cancel_next(f, w) == [f EXCEPT ![IF w < NumWorkers THEN w + 1 ELSE 1] = TRUE]

\* line 123: (*this)[i]->cancel()
Cancel(f, w) == [f EXCEPT ![w] = TRUE]

DrainNeeded_skip == FALSE

\* line 112: while(!mTasks.empty())
DrainNeeded == mTasks # <<>>


\* A worker is between "mRunning = true" (line 80) and "mRunning = false"
\* (line 87) at these positions.
RunRegion == {"w_tunlock1", "w_main", "w_tlock2", "w_setdone"}

\* A worker has dequeued its task and not yet set mRunning.
PreRunRegion == {"w_unlock", "w_tlock1", "w_setrun"}

\* A worker holds a dequeued task: lines 76 to 90.
TaskRegion == PreRunRegion \cup RunRegion \cup {"w_tunlock2"}

Running(w, t) == lTask[w] = t /\ pc[w] \in RunRegion
PreRunning(w, t) == lTask[w] = t /\ pc[w] \in PreRunRegion

\* Every worker of the pool is busy with a dequeued task.
AllBusy == \A w \in 1..inSlaves : pc[w] \in TaskRegion

Count(q, t) == Cardinality({i \in 1..Len(q) : q[i] = t})

\* ---------------------------------------------------------------- Init
\* ThreadPool::ThreadPool(inSlaves) allocates slaves 1..inSlaves; each starts
\* at the top of SlaveThread::main. limit is the workload of the run.
Construct(slaves, limit) ==
    /\ inSlaves \in slaves
    /\ pushLimit = limit
    /\ pc = [th \in Threads |->
                IF th \in Workers THEN (IF th <= inSlaves THEN "w_top" ELSE "w_none")
                ELSE IF th = Producer THEN "p_idle"
                ELSE IF th = Waiter THEN "x_idle"
                ELSE "d_idle"]
    /\ mTasks = <<>>
    /\ poolOwner = 0
    /\ taskOwner = [t \in Tasks |-> 0]
    /\ mRunning = [t \in Tasks |-> FALSE]
    /\ mCompleted = [t \in Tasks |-> FALSE]
    /\ mCancel = [w \in Workers |-> FALSE]
    /\ lTask = [th \in Threads |-> 0]
    /\ dI = 0
    /\ spurious = 0
    /\ pushOrder = <<>>
    /\ popOrder = <<>>
    /\ pushed = [t \in Tasks |-> 0]
    /\ runCount = [t \in Tasks |-> 0]
    /\ doneCount = [t \in Tasks |-> 0]
    /\ lostSignal = {}
    /\ popEmpty = FALSE
    /\ waiterBlocked = FALSE
    /\ wakeLog = [w \in Workers |-> "none"]
    /\ dtorPending = 0
    /\ cancelledRunning = {}
    /\ cancelSkipped = {}

\* Semaphore(inCount): no thread is inside the semaphore.
SemConstruct(counts) ==
    /\ inCount \in counts
    /\ mCount = inCount
    /\ mWaiters = 0
    /\ semOwner = 0
    /\ spc = [th \in SemUsers |-> "idle"]
    /\ lReturn = [th \in SemThreads |-> TRUE]
    /\ timed = [th \in SemThreads |-> FALSE]
    /\ semCalls = 0
    /\ semSpurious = 0
    /\ semSignals = 0
    /\ inLock = [th \in SemUsers |-> TRUE]
    /\ semLog = <<>>

\* ---------------------------------------------------------------- Threading::Exception
\* Native error codes named by Exception.cpp.
EPERM == 1
EDEADLK == 35
ERROR_NOT_OWNER == 288

\* Other native codes 0..MaxOtherNative are passed to convertNativeError.
MaxOtherNative == 3

Natives == (0..MaxOtherNative) \cup {EPERM, EDEADLK, ERROR_NOT_OWNER}

\* enum Threading::Error
Codes == {"eMutexNotOwned", "eWouldDeadLock", "eRunning", "eOtherError"}

\* PACC_THREADS_WIN32 defined or not.
Builds == {"posix", "win32"}

Whats == {"", "lock failed"}

NoMessage == [name |-> "", shown |-> FALSE, native |-> 0, what |-> ""]

\* No exception has been raised and no native code converted.
ExcConstruct(builds) ==
    /\ excBuild \in builds
    /\ excArg = -1
    /\ excCode = "eOtherError"
    /\ mCode = "eOtherError"
    /\ mNativeCode = 0
    /\ excWhat = ""
    /\ excMessage = NoMessage

\* ---------------------------------------------------------------- Socket::UDPServer
\* The receive calls of a run are at most MaxDatagrams.
MaxDatagrams == 3

\* A server on which acceptDatagrams has not been called.
UdpConstruct ==
    /\ upc = "idle"
    /\ mHalt = FALSE
    /\ lHalt = FALSE
    /\ udpCount = 0
    /\ udpReported = 0
    /\ udpLast = "none"
    /\ udpHaltBefore = FALSE

\* XML::Streamer::Streamer(inStream, inWidth, inIndentAttributes)
XmlConstruct(widths, indentAttributes) ==
    /\ mTags = <<>>
    /\ mClosed = TRUE
    /\ mOneAttribute = FALSE
    /\ mIndentAttributes \in indentAttributes
    /\ mIndentWidth \in widths
    /\ mStream = <<>>
    /\ xpc = "ready"
    /\ tagContent = <<>>
    /\ xmlCalls = 0
    /\ xmlOp = "none"

NoSnap == [dim |-> 0, bases |-> <<>>, perms |-> <<>>, counters |-> <<>>, count |-> 0,
           pc |-> "ready", reset |-> FALSE]

NoOut == [values |-> <<>>, max |-> <<>>]

\* QRandSequencer::QRandSequencer(0, inRand): no reset, every vector empty
QrConstruct ==
    /\ mDimensionality = 0
    /\ mBases = <<>>
    /\ mPermutations = <<>>
    /\ mCounters = <<>>
    /\ qCount = 0
    /\ qpc = "ready"
    /\ qrState = <<"none">>
    /\ qrSnap = NoSnap
    /\ qrOut = NoOut
    /\ wasReset = FALSE
    /\ qrOp = "none"

LibIdle == ExcConstruct({"posix"}) /\ UdpConstruct /\ XmlConstruct({2}, {FALSE}) /\ QrConstruct

Init == Construct(1..NumWorkers, MaxPushes) /\ SemConstruct({0}) /\ LibIdle

cfgVars  == <<inSlaves, pushLimit>>
dtorHist == <<dtorPending, cancelledRunning, cancelSkipped>>
histVars == <<pushOrder, popOrder, pushed, runCount, doneCount, lostSignal, popEmpty, waiterBlocked,
              wakeLog>>
lockVars == <<poolOwner, taskOwner>>
flagVars == <<mRunning, mCompleted>>

\* ---------------------------------------------------------------- SlaveThread::main
\* line 67: while(!mCancel)
WorkerTop(w) ==
    /\ pc[w] = "w_top"
    /\ pc' = [pc EXCEPT ![w] = IF mCancel[w] THEN "w_exit" ELSE "w_lock"]
    /\ UNCHANGED <<libVars, semVars, cfgVars, dtorHist, mTasks, lockVars, flagVars, mCancel, lTask, dI, spurious, histVars>>

\* line 70: mPool->lock()
WorkerLock(w) ==
    /\ pc[w] = "w_lock"
    /\ poolOwner = 0
    /\ poolOwner' = w
    /\ pc' = [pc EXCEPT ![w] = "w_check"]
    /\ UNCHANGED <<libVars, semVars, cfgVars, dtorHist, mTasks, taskOwner, flagVars, mCancel, lTask, dI, spurious, histVars>>

\* line 71, condition true: mPool->wait() releases the pool mutex and blocks
WorkerWait(w) ==
    /\ pc[w] = "w_check"
    /\ ShouldWait(w)
    /\ poolOwner' = 0
    /\ pc' = [pc EXCEPT ![w] = "w_wait"]
    /\ wakeLog' = [wakeLog EXCEPT ![w] = IF @ = "woken" THEN "rewait" ELSE "none"]
    /\ UNCHANGED <<libVars, semVars, cfgVars, dtorHist, mTasks, taskOwner, flagVars, mCancel, lTask, dI, spurious,
                   pushOrder, popOrder, pushed, runCount, doneCount, lostSignal, popEmpty, waiterBlocked>>

\* return from mPool->wait(): the pool mutex is re-acquired, then line 71 again
WorkerWoken(w) ==
    /\ pc[w] = "w_woken"
    /\ poolOwner = 0
    /\ poolOwner' = w
    /\ pc' = [pc EXCEPT ![w] = "w_check"]
    /\ wakeLog' = [wakeLog EXCEPT ![w] = "woken"]
    /\ UNCHANGED <<libVars, semVars, cfgVars, dtorHist, mTasks, taskOwner, flagVars, mCancel, lTask, dI, spurious,
                   pushOrder, popOrder, pushed, runCount, doneCount, lostSignal, popEmpty, waiterBlocked>>

\* A test of line 72 that lets a cancelled worker through.
MayDequeue_always(c) == TRUE

\* line 72: if(!mCancel)
MayDequeue(c) == ~c

\* lines 72, 75, 76: not cancelled, take the task at the head of the queue
WorkerDequeue(w) ==
    /\ pc[w] = "w_check"
    /\ ~ShouldWait(w)
    /\ MayDequeue(mCancel[w])
    /\ lTask' = [lTask EXCEPT ![w] = Front(mTasks)]
    /\ mTasks' = Dequeue(mTasks)
    /\ popEmpty' = (popEmpty \/ mTasks = <<>>)
    /\ wakeLog' = [wakeLog EXCEPT ![w] = IF @ = "woken" THEN "took" ELSE "none"]
    /\ popOrder' = IF mTasks = <<>> THEN popOrder ELSE Append(popOrder, Front(mTasks))
    /\ pc' = [pc EXCEPT ![w] = IF mTasks = <<>> THEN "w_crash" ELSE "w_unlock"]
    /\ UNCHANGED <<libVars, semVars, cfgVars, dtorHist, lockVars, flagVars, mCancel, dI, spurious,
                   pushOrder, pushed, runCount, doneCount, lostSignal, waiterBlocked>>

\* line 77: mPool->unlock()
WorkerUnlock(w) ==
    /\ pc[w] = "w_unlock"
    /\ poolOwner' = PoolUnlock(poolOwner)
    /\ pc' = [pc EXCEPT ![w] = "w_tlock1"]
    /\ UNCHANGED <<libVars, semVars, cfgVars, dtorHist, mTasks, taskOwner, flagVars, mCancel, lTask, dI, spurious, histVars>>

\* lines 72, 92: cancelled, else mPool->unlock()
WorkerCancelled(w) ==
    /\ pc[w] = "w_check"
    /\ ~ShouldWait(w)
    /\ mCancel[w]
    /\ poolOwner' = 0
    /\ pc' = [pc EXCEPT ![w] = "w_top"]
    /\ cancelSkipped' = IF mTasks # <<>> THEN cancelSkipped \cup {w} ELSE cancelSkipped
    /\ UNCHANGED <<libVars, semVars, cfgVars, dtorPending, cancelledRunning, mTasks, taskOwner, flagVars,
                   mCancel, lTask, dI, spurious, histVars>>

\* line 79: lTask->lock()
WorkerTaskLock1(w) ==
    /\ pc[w] = "w_tlock1"
    /\ taskOwner[lTask[w]] = 0
    /\ taskOwner' = [taskOwner EXCEPT ![lTask[w]] = w]
    /\ pc' = [pc EXCEPT ![w] = "w_setrun"]
    /\ UNCHANGED <<libVars, semVars, cfgVars, dtorHist, mTasks, poolOwner, flagVars, mCancel, lTask, dI, spurious, histVars>>

\* lines 80-81: lTask->mRunning = true; lTask->broadcast()
WorkerSetRunning(w) ==
    /\ pc[w] = "w_setrun"
    /\ mRunning' = [mRunning EXCEPT ![lTask[w]] = TRUE]
    /\ runCount' = [runCount EXCEPT ![lTask[w]] = @ + (IF mRunning[lTask[w]] THEN 0 ELSE 1)]
    /\ pc' = [RunningBroadcast(pc, lTask[w]) EXCEPT ![w] = "w_tunlock1"]
    /\ UNCHANGED <<libVars, semVars, cfgVars, dtorHist, mTasks, lockVars, mCompleted, mCancel, lTask, dI, spurious,
                   pushOrder, popOrder, pushed, doneCount, lostSignal, popEmpty, waiterBlocked, wakeLog>>

\* line 82: lTask->unlock()
WorkerTaskUnlock1(w) ==
    /\ pc[w] = "w_tunlock1"
    /\ taskOwner' = TaskUnlock(taskOwner, lTask[w])
    /\ pc' = [pc EXCEPT ![w] = "w_main"]
    /\ UNCHANGED <<libVars, semVars, cfgVars, dtorHist, mTasks, poolOwner, flagVars, mCancel, lTask, dI, spurious, histVars>>

\* A worker that takes the next task without lines 86-90.
AfterMain_skip(w) == "w_top"

AfterMain_cancel(w) == IF mCancel[w] THEN "w_top" ELSE "w_tlock2"

\* lines 84-86: after lTask->main() the worker goes on to line 86
AfterMain(w) == "w_tlock2"

\* line 84: lTask->main() returns
WorkerMain(w) ==
    /\ pc[w] = "w_main"
    /\ pc' = [pc EXCEPT ![w] = AfterMain(w)]
    /\ UNCHANGED <<libVars, semVars, cfgVars, dtorHist, mTasks, lockVars, flagVars, mCancel, lTask, dI, spurious, histVars>>

\* line 86: lTask->lock()
WorkerTaskLock2(w) ==
    /\ pc[w] = "w_tlock2"
    /\ taskOwner[lTask[w]] = 0
    /\ taskOwner' = [taskOwner EXCEPT ![lTask[w]] = w]
    /\ pc' = [pc EXCEPT ![w] = "w_setdone"]
    /\ UNCHANGED <<libVars, semVars, cfgVars, dtorHist, mTasks, poolOwner, flagVars, mCancel, lTask, dI, spurious, histVars>>

\* A worker that leaves mRunning set when it marks the task completed.
ClearRunning_keep(f, t) == f

\* line 87: lTask->mRunning = false
ClearRunning(f, t) == [f EXCEPT ![t] = FALSE]

\* lines 87-89: mRunning = false; mCompleted = true; lTask->broadcast()
WorkerSetCompleted(w) ==
    /\ pc[w] = "w_setdone"
    /\ mRunning' = ClearRunning(mRunning, lTask[w])
    /\ mCompleted' = [mCompleted EXCEPT ![lTask[w]] = TRUE]
    /\ doneCount' = [doneCount EXCEPT ![lTask[w]] = @ + 1]
    /\ pc' = [CompletedBroadcast(pc, lTask[w]) EXCEPT ![w] = "w_tunlock2"]
    /\ UNCHANGED <<libVars, semVars, cfgVars, dtorHist, mTasks, lockVars, mCancel, lTask, dI, spurious,
                   pushOrder, popOrder, pushed, runCount, lostSignal, popEmpty, waiterBlocked, wakeLog>>

\* line 90: lTask->unlock(), then back to line 67
WorkerTaskUnlock2(w) ==
    /\ pc[w] = "w_tunlock2"
    /\ taskOwner' = [taskOwner EXCEPT ![lTask[w]] = 0]
    /\ pc' = [pc EXCEPT ![w] = "w_top"]
    /\ UNCHANGED <<libVars, semVars, cfgVars, dtorHist, mTasks, poolOwner, flagVars, mCancel, lTask, dI, spurious, histVars>>

\* ---------------------------------------------------------------- ThreadPool::push
\* The caller's obligation (a task is not pushed while queued or running):
\* it pushes a task it has never pushed or one it has seen completed.
\* Unused task objects are taken in order.
Eligible(t) ==
    \/ pushed[t] = 0 /\ \A s \in Tasks : s < t => pushed[s] > 0
    \/ pushed[t] > 0 /\ mCompleted[t]

\* line 138: inTask.reset()
PushReset(t) ==
    /\ pc[Producer] = "p_idle"
    /\ pc[Dtor] = "d_idle"
    /\ Len(pushOrder) < pushLimit
    /\ Eligible(t)
    /\ lTask' = [lTask EXCEPT ![Producer] = t]
    /\ mRunning' = PushResets(mRunning, t)
    /\ mCompleted' = PushResets(mCompleted, t)
    /\ pc' = [pc EXCEPT ![Producer] = "p_lock"]
    /\ UNCHANGED <<libVars, semVars, cfgVars, dtorHist, mTasks, lockVars, mCancel, dI, spurious, histVars>>

\* line 138, in a push() made while the pool is being destroyed
PushResetLate(t) ==
    /\ pc[Producer] = "p_idle"
    /\ pc[Dtor] \notin {"d_idle", "d_done"}
    /\ Len(pushOrder) < pushLimit
    /\ Eligible(t)
    /\ lTask' = [lTask EXCEPT ![Producer] = t]
    /\ mRunning' = PushResets(mRunning, t)
    /\ mCompleted' = PushResets(mCompleted, t)
    /\ pc' = [pc EXCEPT ![Producer] = "p_lock"]
    /\ UNCHANGED <<libVars, semVars, cfgVars, dtorHist, mTasks, lockVars, mCancel, dI, spurious, histVars>>

\* line 140: lock()
PushLock ==
    /\ pc[Producer] = "p_lock"
    /\ poolOwner = 0
    /\ poolOwner' = Producer
    /\ pc' = [pc EXCEPT ![Producer] = "p_push"]
    /\ UNCHANGED <<libVars, semVars, cfgVars, dtorHist, mTasks, taskOwner, flagVars, mCancel, lTask, dI, spurious, histVars>>

\* lines 141-142: mTasks.push(&inTask); signal()
PushAppend ==
    /\ pc[Producer] = "p_push"
    /\ mTasks' = Enqueue(mTasks, lTask[Producer])
    /\ pushOrder' = Append(pushOrder, lTask[Producer])
    /\ lostSignal' = IF AllBusy THEN lostSignal \cup {lTask[Producer]} ELSE lostSignal
    /\ \E p \in SignalPool(pc) : pc' = [p EXCEPT ![Producer] = "p_unlock"]
    /\ UNCHANGED <<libVars, semVars, cfgVars, dtorHist, lockVars, flagVars, mCancel, lTask, dI, spurious,
                   popOrder, pushed, runCount, doneCount, popEmpty, waiterBlocked, wakeLog>>

\* line 143: unlock(), push returns
PushUnlock ==
    /\ pc[Producer] = "p_unlock"
    /\ poolOwner' = 0
    /\ pushed' = [pushed EXCEPT ![lTask[Producer]] = @ + 1]
    /\ pc' = [pc EXCEPT ![Producer] = "p_idle"]
    /\ UNCHANGED <<libVars, semVars, cfgVars, dtorHist, mTasks, taskOwner, flagVars, mCancel, lTask, dI, spurious,
                   pushOrder, popOrder, runCount, doneCount, lostSignal, popEmpty, waiterBlocked, wakeLog>>

\* ---------------------------------------------------------------- waiting for a task
\* A caller waiting for the completion of a task whose push() has returned:
\*   t.lock(); while(!t.mCompleted) t.wait(); t.unlock();
WaitStart(t) ==
    /\ pc[Waiter] = "x_idle"
    /\ pushed[t] > 0
    /\ lTask' = [lTask EXCEPT ![Waiter] = t]
    /\ pc' = [pc EXCEPT ![Waiter] = "x_lock"]
    /\ UNCHANGED <<libVars, semVars, cfgVars, dtorHist, mTasks, lockVars, flagVars, mCancel, dI, spurious, histVars>>

WaitLock ==
    /\ pc[Waiter] \in {"x_lock", "x_woken"}
    /\ taskOwner[lTask[Waiter]] = 0
    /\ taskOwner' = [taskOwner EXCEPT ![lTask[Waiter]] = Waiter]
    /\ pc' = [pc EXCEPT ![Waiter] = "x_check"]
    /\ UNCHANGED <<libVars, semVars, cfgVars, dtorHist, mTasks, poolOwner, flagVars, mCancel, lTask, dI, spurious, histVars>>

\* the flag is not set: Condition::wait releases the task mutex and blocks
WaitBlock ==
    /\ pc[Waiter] = "x_check"
    /\ ~mCompleted[lTask[Waiter]]
    /\ taskOwner' = [taskOwner EXCEPT ![lTask[Waiter]] = 0]
    /\ pc' = [pc EXCEPT ![Waiter] = "x_wait"]
    /\ waiterBlocked' = TRUE
    /\ UNCHANGED <<libVars, semVars, cfgVars, dtorHist, mTasks, poolOwner, flagVars, mCancel, lTask, dI, spurious,
                   pushOrder, popOrder, pushed, runCount, doneCount, lostSignal, popEmpty, wakeLog>>

\* the flag is set: unlock and return
WaitReturn ==
    /\ pc[Waiter] = "x_check"
    /\ mCompleted[lTask[Waiter]]
    /\ taskOwner' = [taskOwner EXCEPT ![lTask[Waiter]] = 0]
    /\ pc' = [pc EXCEPT ![Waiter] = "x_done"]
    /\ UNCHANGED <<libVars, semVars, cfgVars, dtorHist, mTasks, poolOwner, flagVars, mCancel, lTask, dI, spurious, histVars>>

\* A spurious return of Condition::wait (no signal, no broadcast).
SpuriousWake(th) ==
    /\ spurious < MaxSpurious
    /\ pc[th] \in {"w_wait", "x_wait", "d_wait"}
    /\ spurious' = spurious + 1
    /\ pc' = [pc EXCEPT ![th] = IF pc[th] = "w_wait" THEN "w_woken"
                                 ELSE IF pc[th] = "x_wait" THEN "x_woken"
                                 ELSE "d_woken"]
    /\ UNCHANGED <<libVars, semVars, cfgVars, dtorHist, mTasks, lockVars, flagVars, mCancel, lTask, dI, histVars>>

\* ---------------------------------------------------------------- ThreadPool::~ThreadPool
\* The pool is destroyed by its owner once no push() is in progress.
\* line 110: lock()
DtorLock ==
    /\ pc[Dtor] = "d_idle"
    /\ pc[Producer] = "p_idle"
    /\ poolOwner = 0
    /\ poolOwner' = Dtor
    /\ pc' = [pc EXCEPT ![Dtor] = "d_check"]
    /\ dtorPending' = Len(mTasks)
    /\ UNCHANGED <<libVars, semVars, cfgVars, cancelledRunning, cancelSkipped, mTasks, taskOwner, flagVars, mCancel, lTask, dI,
                   spurious, histVars>>

\* A destructor that gives up the pool mutex before line 116.
PickHolds_release(o) == 0

\* lines 112 to 116: no unlock() before line 117, the pool mutex stays with
\* its owner while the last task is picked and its mutex taken
PickHolds(o) == o

\* lines 112, 115: queue not empty, lTask = mTasks.back()
DtorPick ==
    /\ pc[Dtor] = "d_check"
    /\ DrainNeeded
    /\ lTask' = [lTask EXCEPT ![Dtor] = Back(mTasks)]
    /\ poolOwner' = PickHolds(poolOwner)
    /\ pc' = [pc EXCEPT ![Dtor] = "d_tlock"]
    /\ UNCHANGED <<libVars, semVars, cfgVars, dtorHist, mTasks, taskOwner, flagVars, mCancel, dI, spurious, histVars>>

\* line 116: lTask->lock()
DtorTaskLock ==
    /\ pc[Dtor] = "d_tlock"
    /\ taskOwner[lTask[Dtor]] = 0
    /\ taskOwner' = [taskOwner EXCEPT ![lTask[Dtor]] = Dtor]
    /\ pc' = [pc EXCEPT ![Dtor] = "d_unlock"]
    /\ UNCHANGED <<libVars, semVars, cfgVars, dtorHist, mTasks, poolOwner, flagVars, mCancel, lTask, dI, spurious, histVars>>

\* line 117: unlock()
DtorUnlock ==
    /\ pc[Dtor] = "d_unlock"
    /\ poolOwner' = 0
    /\ pc' = [pc EXCEPT ![Dtor] = "d_twait"]
    /\ UNCHANGED <<libVars, semVars, cfgVars, dtorHist, mTasks, taskOwner, flagVars, mCancel, lTask, dI, spurious, histVars>>

\* line 118: lTask->wait(false) releases the task mutex and blocks
DtorWait ==
    /\ pc[Dtor] = "d_twait"
    /\ taskOwner' = [taskOwner EXCEPT ![lTask[Dtor]] = 0]
    /\ pc' = [pc EXCEPT ![Dtor] = "d_wait"]
    /\ UNCHANGED <<libVars, semVars, cfgVars, dtorHist, mTasks, poolOwner, flagVars, mCancel, lTask, dI, spurious, histVars>>

\* return from lTask->wait(false): the task mutex is re-acquired
DtorWoken ==
    /\ pc[Dtor] = "d_woken"
    /\ taskOwner[lTask[Dtor]] = 0
    /\ taskOwner' = [taskOwner EXCEPT ![lTask[Dtor]] = Dtor]
    /\ pc' = [pc EXCEPT ![Dtor] = "d_tunlock"]
    /\ UNCHANGED <<libVars, semVars, cfgVars, dtorHist, mTasks, poolOwner, flagVars, mCancel, lTask, dI, spurious, histVars>>

\* line 119: lTask->unlock()
DtorTaskUnlock ==
    /\ pc[Dtor] = "d_tunlock"
    /\ taskOwner' = [taskOwner EXCEPT ![lTask[Dtor]] = 0]
    /\ pc' = [pc EXCEPT ![Dtor] = "d_relock"]
    /\ UNCHANGED <<libVars, semVars, cfgVars, dtorHist, mTasks, poolOwner, flagVars, mCancel, lTask, dI, spurious, histVars>>

\* line 120: lock(), then line 112 again
DtorRelock ==
    /\ pc[Dtor] = "d_relock"
    /\ poolOwner = 0
    /\ poolOwner' = Dtor
    /\ pc' = [pc EXCEPT ![Dtor] = "d_check"]
    /\ UNCHANGED <<libVars, semVars, cfgVars, dtorHist, mTasks, taskOwner, flagVars, mCancel, lTask, dI, spurious, histVars>>

\* line 112 false: the drain loop is left
DtorDrained ==
    /\ pc[Dtor] = "d_check"
    /\ ~DrainNeeded
    /\ dI' = 1
    /\ pc' = [pc EXCEPT ![Dtor] = "d_cancel"]
    /\ UNCHANGED <<libVars, semVars, cfgVars, dtorHist, mTasks, lockVars, flagVars, mCancel, lTask, spurious, histVars>>

\* line 123: (*this)[i]->cancel(), one iteration
DtorCancel ==
    /\ pc[Dtor] = "d_cancel"
    /\ dI <= inSlaves
    /\ mCancel' = Cancel(mCancel, dI)
    /\ dI' = dI + 1
    /\ cancelledRunning' = IF pc[dI] \in RunRegion /\ mRunning[lTask[dI]]
                           THEN cancelledRunning \cup {dI} ELSE cancelledRunning
    /\ UNCHANGED <<libVars, semVars, cfgVars, dtorPending, cancelSkipped, pc, mTasks, lockVars, flagVars, lTask, spurious, histVars>>

DtorWake_signal(p) == CHOOSE q \in SignalPool(p) : TRUE

\* line 125: broadcast()
DtorWake(p) == BroadcastPool(p)

DtorBroadcast ==
    /\ pc[Dtor] = "d_cancel"
    /\ dI > inSlaves
    /\ pc' = [DtorWake(pc) EXCEPT ![Dtor] = "d_unlock2"]
    /\ UNCHANGED <<libVars, semVars, cfgVars, dtorHist, mTasks, lockVars, flagVars, mCancel, lTask, dI, spurious, histVars>>

\* line 126: unlock()
DtorUnlock2 ==
    /\ pc[Dtor] = "d_unlock2"
    /\ poolOwner' = 0
    /\ dI' = 1
    /\ pc' = [pc EXCEPT ![Dtor] = "d_join"]
    /\ UNCHANGED <<libVars, semVars, cfgVars, dtorHist, mTasks, taskOwner, flagVars, mCancel, lTask, spurious, histVars>>

\* The thread destructor waits for the completion of its thread.
ThreadEnded(w) == pc[w] = "w_exit"

JoinReady_noWait(w) == TRUE

\* lines 127-128: delete (*this)[i] waits for the completion of thread i
JoinReady(w) == ThreadEnded(w)

DtorJoin ==
    /\ pc[Dtor] = "d_join"
    /\ dI <= inSlaves
    /\ JoinReady(dI)
    /\ dI' = dI + 1
    /\ UNCHANGED <<libVars, semVars, cfgVars, dtorHist, pc, mTasks, lockVars, flagVars, mCancel, lTask, spurious, histVars>>

\* the destructor returns
DtorReturn ==
    /\ pc[Dtor] = "d_join"
    /\ dI > inSlaves
    /\ pc' = [pc EXCEPT ![Dtor] = "d_done"]
    /\ UNCHANGED <<libVars, semVars, cfgVars, dtorHist, mTasks, lockVars, flagVars, mCancel, lTask, dI, spurious, histVars>>

\* ---------------------------------------------------------------- a failing task body
\* line 84: lTask->main() raises; nothing in SlaveThread::main catches it,
\* so lines 86-90 are not executed and the thread is lost.
WorkerMainRaise(w) ==
    /\ pc[w] = "w_main"
    /\ pc' = [pc EXCEPT ![w] = "w_dead"]
    /\ UNCHANGED <<libVars, semVars, cfgVars, dtorHist, mTasks, lockVars, flagVars, mCancel, lTask, dI, spurious, histVars>>

\* ---------------------------------------------------------------- Next
\* The steps of a worker of a pool in service (mCancel is false).
WorkerServe(w) ==
    \/ WorkerTop(w) \/ WorkerLock(w) \/ WorkerWait(w) \/ WorkerWoken(w)
    \/ WorkerDequeue(w) \/ WorkerUnlock(w)
    \/ WorkerTaskLock1(w) \/ WorkerSetRunning(w) \/ WorkerTaskUnlock1(w)
    \/ WorkerMain(w)
    \/ WorkerTaskLock2(w) \/ WorkerSetCompleted(w) \/ WorkerTaskUnlock2(w)

WorkerStep(w) == WorkerServe(w) \/ WorkerCancelled(w)

PushStep ==
    \/ \E t \in Tasks : PushReset(t)
    \/ PushLock \/ PushAppend \/ PushUnlock

WaitStep ==
    \/ \E t \in Tasks : WaitStart(t)
    \/ WaitLock \/ WaitBlock \/ WaitReturn

DtorStep ==
    \/ DtorLock \/ DtorPick \/ DtorTaskLock \/ DtorUnlock \/ DtorWait
    \/ DtorWoken \/ DtorTaskUnlock \/ DtorRelock \/ DtorDrained
    \/ DtorCancel \/ DtorBroadcast \/ DtorUnlock2 \/ DtorJoin \/ DtorReturn

SpuriousStep == \E th \in Threads : SpuriousWake(th)

\* The pool in service: workers, a producer and a caller waiting for a task.
Next ==
    \/ \E w \in Workers : WorkerServe(w)
    \/ PushStep
    \/ WaitStep
    \/ SpuriousStep

Spec == Init /\ [][Next]_vars

\* The pool in service, then destroyed by its owner.
NextShutdown ==
    \/ \E w \in Workers : WorkerStep(w)
    \/ PushStep
    \/ DtorStep
    \/ SpuriousStep

SpecShutdown == Init /\ [][NextShutdown]_vars

\* The pool in service with task bodies that may raise.
NextFail ==
    \/ Next
    \/ \E w \in Workers : WorkerMainRaise(w)

SpecFail == Init /\ [][NextFail]_vars

\* Scheduling: a thread that can take a step is eventually scheduled, and
\* every task body returns. Whether a caller starts a push, a wait or the
\* destruction of the pool is left to the caller; once started, they proceed.
PushFinish == PushLock \/ PushAppend \/ PushUnlock
WaitFinish == WaitLock \/ WaitBlock \/ WaitReturn
DtorFinish ==
    \/ DtorPick \/ DtorTaskLock \/ DtorUnlock \/ DtorWait
    \/ DtorWoken \/ DtorTaskUnlock \/ DtorRelock \/ DtorDrained
    \/ DtorCancel \/ DtorBroadcast \/ DtorUnlock2 \/ DtorJoin \/ DtorReturn

Fairness ==
    /\ \A w \in Workers : WF_vars(WorkerStep(w))
    /\ WF_vars(PushFinish)
    /\ WF_vars(WaitFinish)
    /\ WF_vars(DtorFinish)

LiveInit == Construct(1..NumWorkers, LivePushes) /\ SemConstruct({0}) /\ LibIdle

LiveSpec == LiveInit /\ [][Next]_vars /\ Fairness

LiveShutdown == LiveInit /\ [][NextShutdown]_vars /\ Fairness

\* The pool destroyed while its caller still pushes tasks.
NextLatePush ==
    \/ NextShutdown
    \/ \E t \in Tasks : PushResetLate(t)

SpecLatePush == LiveInit /\ [][NextLatePush]_vars

\* The pool in service with task bodies that need not return: every thread
\* that can take a step is eventually scheduled, but nothing makes a worker
\* leave line 84.
WorkerAround(w) ==
    \/ WorkerTop(w) \/ WorkerLock(w) \/ WorkerWait(w) \/ WorkerWoken(w)
    \/ WorkerDequeue(w) \/ WorkerUnlock(w)
    \/ WorkerTaskLock1(w) \/ WorkerSetRunning(w) \/ WorkerTaskUnlock1(w)
    \/ WorkerTaskLock2(w) \/ WorkerSetCompleted(w) \/ WorkerTaskUnlock2(w)

NextStuck ==
    \/ \E w \in Workers : WorkerServe(w)
    \/ PushStep
    \/ SpuriousStep

StuckFairness ==
    /\ \A w \in Workers : WF_vars(WorkerAround(w))
    /\ WF_vars(PushFinish)

StuckSpec == Init /\ [][NextStuck]_vars /\ StuckFairness

\* ================================================================ Semaphore
\* Condition::signal on the semaphore's condition: wakes one blocked thread,
\* any of them, which returns true from Condition::wait once it has the mutex.
SemSignal(p) ==
    IF \E th \in SemThreads : p[th] = "wait_blocked"
    THEN {[p EXCEPT ![th] = "wait_reacq"] : th \in {v \in SemThreads : p[v] = "wait_blocked"}}
    ELSE {p}

Exhausted_strict(c) == c < 0

Exhausted_never(c) == FALSE

\* line 88: if(mCount <= 0) lReturn = false
Exhausted(c) == c <= 0

MustWait_negOnly(c, r) == c < 0 /\ r

\* line 113: while(mCount <= 0 && lReturn)
MustWait(c, r) == c <= 0 /\ r

\* lines 68, 86, 109: if(inLock) lock()
LockIf(inL, o, th) == IF inL THEN th ELSE o

UnlockIf_always(inL, o) == 0

\* lines 74, 92, 119: if(inLock) unlock()
UnlockIf(inL, o) == IF inL THEN 0 ELSE o

\* The caller is back where it called from: without the mutex, or holding it.
ReturnsTo(inL) == IF inL THEN "idle" ELSE "held"

WaitersAfter_onSuccess(n, r) == IF r THEN n - 1 ELSE n

\* line 117: mWaiters -= 1
WaitersAfter(n, r) == n - 1

WaitTakes_never(r) == FALSE

WaitTakes_always(r) == TRUE

\* line 115: if(lReturn) mCount -= 1
WaitTakes(r) == r

PostSignals_never(n) == FALSE

PostSignals_always(n) == TRUE

\* line 72: if(mWaiters > 0) Condition::signal()
PostSignals(n) == n > 0

SemLogged(op, ret) == Append(semLog, <<op, ret>>)

\* ---------------------------------------------------------------- Semaphore::post
\* post(true) is called
SemPostCall(th) ==
    /\ spc[th] = "idle"
    /\ semCalls < MaxSemOps
    /\ semCalls' = semCalls + 1
    /\ spc' = [spc EXCEPT ![th] = "post_lock"]
    /\ inLock' = [inLock EXCEPT ![th] = TRUE]
    /\ UNCHANGED <<libVars, poolVars, mCount, mWaiters, semOwner, lReturn, timed, inCount, semSignals,
                   semSpurious, semLog>>

\* line 68: if(inLock) lock()
SemPostLock(th) ==
    /\ spc[th] = "post_lock"
    /\ inLock[th] => semOwner = 0
    /\ semOwner' = LockIf(inLock[th], semOwner, th)
    /\ spc' = [spc EXCEPT ![th] = "post_body"]
    /\ UNCHANGED <<libVars, poolVars, mCount, mWaiters, lReturn, timed, inCount, inLock, semSignals, semCalls,
                   semSpurious, semLog>>

\* lines 70-72: mCount += 1; if(mWaiters > 0) Condition::signal()
SemPostBody(th) ==
    /\ spc[th] = "post_body"
    /\ mCount' = mCount + 1
    /\ semLog' = SemLogged("post", TRUE)
    /\ \E p \in (IF PostSignals(mWaiters) THEN SemSignal(spc) ELSE {spc}) :
           spc' = [p EXCEPT ![th] = "post_unlock"]
    /\ lReturn' = [v \in SemThreads |->
                      IF spc[v] = "wait_blocked" /\ spc'[v] = "wait_reacq"
                      THEN TRUE ELSE lReturn[v]]
    /\ semSignals' = semSignals + (IF PostSignals(mWaiters) THEN 1 ELSE 0)
    /\ UNCHANGED <<libVars, poolVars, mWaiters, semOwner, timed, inCount, inLock, semCalls, semSpurious>>

\* line 74: if(inLock) unlock()
SemPostUnlock(th) ==
    /\ spc[th] = "post_unlock"
    /\ semOwner' = UnlockIf(inLock[th], semOwner)
    /\ spc' = [spc EXCEPT ![th] = ReturnsTo(inLock[th])]
    /\ UNCHANGED <<libVars, poolVars, mCount, mWaiters, lReturn, timed, inCount, inLock, semSignals, semCalls,
                   semSpurious, semLog>>

\* ---------------------------------------------------------------- Semaphore::tryWait
\* tryWait(true) is called; line 84: bool lReturn = true
SemTryCall(th) ==
    /\ spc[th] = "idle"
    /\ semCalls < MaxSemOps
    /\ semCalls' = semCalls + 1
    /\ lReturn' = [lReturn EXCEPT ![th] = TRUE]
    /\ spc' = [spc EXCEPT ![th] = "try_lock"]
    /\ inLock' = [inLock EXCEPT ![th] = TRUE]
    /\ UNCHANGED <<libVars, poolVars, mCount, mWaiters, semOwner, timed, inCount, semSignals, semSpurious, semLog>>

\* line 86: if(inLock) lock()
SemTryLock(th) ==
    /\ spc[th] = "try_lock"
    /\ inLock[th] => semOwner = 0
    /\ semOwner' = LockIf(inLock[th], semOwner, th)
    /\ spc' = [spc EXCEPT ![th] = "try_body"]
    /\ UNCHANGED <<libVars, poolVars, mCount, mWaiters, lReturn, timed, inCount, inLock, semSignals, semCalls,
                   semSpurious, semLog>>

\* lines 88-90: if(mCount <= 0) lReturn = false; if(lReturn) mCount -= 1
SemTryBody(th) ==
    /\ spc[th] = "try_body"
    /\ lReturn' = [lReturn EXCEPT ![th] = ~Exhausted(mCount)]
    /\ mCount' = IF lReturn'[th] THEN mCount - 1 ELSE mCount
    /\ semLog' = SemLogged("tryWait", lReturn'[th])
    /\ spc' = [spc EXCEPT ![th] = "try_unlock"]
    /\ UNCHANGED <<libVars, poolVars, mWaiters, semOwner, timed, inCount, inLock, semSignals, semCalls, semSpurious>>

\* lines 92-93: if(inLock) unlock(); return lReturn
SemTryUnlock(th) ==
    /\ spc[th] = "try_unlock"
    /\ semOwner' = UnlockIf(inLock[th], semOwner)
    /\ spc' = [spc EXCEPT ![th] = ReturnsTo(inLock[th])]
    /\ UNCHANGED <<libVars, poolVars, mCount, mWaiters, lReturn, timed, inCount, inLock, semSignals, semCalls,
                   semSpurious, semLog>>

\* ---------------------------------------------------------------- Semaphore::wait
\* wait(inMaxTime, true) is called, with inMaxTime > 0 or not;
\* line 107: bool lReturn = true
SemWaitCall(th, withTimeout) ==
    /\ spc[th] = "idle"
    /\ semCalls < MaxSemOps
    /\ semCalls' = semCalls + 1
    /\ lReturn' = [lReturn EXCEPT ![th] = TRUE]
    /\ timed' = [timed EXCEPT ![th] = withTimeout]
    /\ spc' = [spc EXCEPT ![th] = "wait_lock"]
    /\ inLock' = [inLock EXCEPT ![th] = TRUE]
    /\ UNCHANGED <<libVars, poolVars, mCount, mWaiters, semOwner, inCount, semSignals, semSpurious, semLog>>

\* line 109: if(inLock) lock()
SemWaitLock(th) ==
    /\ spc[th] = "wait_lock"
    /\ inLock[th] => semOwner = 0
    /\ semOwner' = LockIf(inLock[th], semOwner, th)
    /\ spc' = [spc EXCEPT ![th] = "wait_inc"]
    /\ UNCHANGED <<libVars, poolVars, mCount, mWaiters, lReturn, timed, inCount, inLock, semSignals, semCalls,
                   semSpurious, semLog>>

\* line 111: mWaiters += 1
SemWaitInc(th) ==
    /\ spc[th] = "wait_inc"
    /\ mWaiters' = mWaiters + 1
    /\ spc' = [spc EXCEPT ![th] = "wait_loop"]
    /\ UNCHANGED <<libVars, poolVars, mCount, semOwner, lReturn, timed, inCount, inLock, semSignals, semCalls,
                   semSpurious, semLog>>

\* line 113, condition true: Condition::wait(inMaxTime) releases the mutex
SemWaitBlock(th) ==
    /\ spc[th] = "wait_loop"
    /\ MustWait(mCount, lReturn[th])
    /\ semOwner' = 0
    /\ spc' = [spc EXCEPT ![th] = "wait_blocked"]
    /\ UNCHANGED <<libVars, poolVars, mCount, mWaiters, lReturn, timed, inCount, inLock, semSignals, semCalls,
                   semSpurious, semLog>>

\* Condition::wait(inMaxTime) times out: it will return false
SemWaitTimeout(th) ==
    /\ spc[th] = "wait_blocked"
    /\ timed[th]
    /\ lReturn' = [lReturn EXCEPT ![th] = FALSE]
    /\ spc' = [spc EXCEPT ![th] = "wait_reacq"]
    /\ UNCHANGED <<libVars, poolVars, mCount, mWaiters, semOwner, timed, inCount, inLock, semSignals, semCalls,
                   semSpurious, semLog>>

\* Condition::wait wakes spuriously: it will return true
SemWaitSpurious(th) ==
    /\ spc[th] = "wait_blocked"
    /\ semSpurious < MaxSpurious
    /\ semSpurious' = semSpurious + 1
    /\ lReturn' = [lReturn EXCEPT ![th] = TRUE]
    /\ spc' = [spc EXCEPT ![th] = "wait_reacq"]
    /\ UNCHANGED <<libVars, poolVars, mCount, mWaiters, semOwner, timed, inCount, inLock, semSignals, semCalls, semLog>>

\* Condition::wait re-acquires the mutex and returns; line 113 again
SemWaitReacquire(th) ==
    /\ spc[th] = "wait_reacq"
    /\ semOwner = 0
    /\ semOwner' = th
    /\ spc' = [spc EXCEPT ![th] = "wait_loop"]
    /\ UNCHANGED <<libVars, poolVars, mCount, mWaiters, lReturn, timed, inCount, inLock, semSignals, semCalls,
                   semSpurious, semLog>>

\* line 113 false, lines 115-117: if(lReturn) mCount -= 1; mWaiters -= 1
SemWaitDec(th) ==
    /\ spc[th] = "wait_loop"
    /\ ~MustWait(mCount, lReturn[th])
    /\ mCount' = IF WaitTakes(lReturn[th]) THEN mCount - 1 ELSE mCount
    /\ mWaiters' = WaitersAfter(mWaiters, lReturn[th])
    /\ semLog' = SemLogged("wait", lReturn[th])
    /\ spc' = [spc EXCEPT ![th] = "wait_unlock"]
    /\ UNCHANGED <<libVars, poolVars, semOwner, lReturn, timed, inCount, inLock, semSignals, semCalls, semSpurious>>

\* lines 119-120: if(inLock) unlock(); return lReturn
SemWaitUnlock(th) ==
    /\ spc[th] = "wait_unlock"
    /\ semOwner' = UnlockIf(inLock[th], semOwner)
    /\ spc' = [spc EXCEPT ![th] = ReturnsTo(inLock[th])]
    /\ UNCHANGED <<libVars, poolVars, mCount, mWaiters, lReturn, timed, inCount, inLock, semSignals, semCalls,
                   semSpurious, semLog>>

SemPost(th) == SemPostCall(th) \/ SemPostLock(th) \/ SemPostBody(th) \/ SemPostUnlock(th)

SemTryWait(th) == SemTryCall(th) \/ SemTryLock(th) \/ SemTryBody(th) \/ SemTryUnlock(th)

SemWait(th) ==
    \/ \E withTimeout \in BOOLEAN : SemWaitCall(th, withTimeout)
    \/ SemWaitLock(th) \/ SemWaitInc(th) \/ SemWaitBlock(th) \/ SemWaitTimeout(th)
    \/ SemWaitSpurious(th) \/ SemWaitReacquire(th) \/ SemWaitDec(th) \/ SemWaitUnlock(th)

SemNext == \E th \in SemThreads : SemPost(th) \/ SemTryWait(th) \/ SemWait(th)

SemInit == Construct({1}, 0) /\ SemConstruct(0..MaxInitCount) /\ LibIdle

SemSpec == SemInit /\ [][SemNext]_vars

\* ---------------------------------------------------------------- caller-held lock
\* The caller takes the embedded mutex itself (Semaphore::lock), calls
\* post(false), tryWait(false) or wait(inMaxTime, false), and releases the
\* mutex (Semaphore::unlock).
SemUserLock(th) ==
    /\ spc[th] = "idle"
    /\ semOwner = 0
    /\ semOwner' = th
    /\ spc' = [spc EXCEPT ![th] = "held"]
    /\ UNCHANGED <<libVars, poolVars, mCount, mWaiters, lReturn, timed, inCount, inLock, semSignals,
                   semCalls, semSpurious, semLog>>

SemUserUnlock(th) ==
    /\ spc[th] = "held"
    /\ semOwner' = 0
    /\ spc' = [spc EXCEPT ![th] = "idle"]
    /\ UNCHANGED <<libVars, poolVars, mCount, mWaiters, lReturn, timed, inCount, inLock, semSignals,
                   semCalls, semSpurious, semLog>>

\* post(false) is called
SemPostHeld(th) ==
    /\ spc[th] = "held"
    /\ semCalls < MaxSemOps
    /\ semCalls' = semCalls + 1
    /\ inLock' = [inLock EXCEPT ![th] = FALSE]
    /\ spc' = [spc EXCEPT ![th] = "post_lock"]
    /\ UNCHANGED <<libVars, poolVars, mCount, mWaiters, semOwner, lReturn, timed, inCount, semSignals,
                   semSpurious, semLog>>

\* tryWait(false) is called; line 84: bool lReturn = true
SemTryHeld(th) ==
    /\ spc[th] = "held"
    /\ semCalls < MaxSemOps
    /\ semCalls' = semCalls + 1
    /\ inLock' = [inLock EXCEPT ![th] = FALSE]
    /\ lReturn' = [lReturn EXCEPT ![th] = TRUE]
    /\ spc' = [spc EXCEPT ![th] = "try_lock"]
    /\ UNCHANGED <<libVars, poolVars, mCount, mWaiters, semOwner, timed, inCount, semSignals,
                   semSpurious, semLog>>

\* wait(inMaxTime, false) is called; line 107: bool lReturn = true
SemWaitHeld(th, withTimeout) ==
    /\ spc[th] = "held"
    /\ semCalls < MaxSemOps
    /\ semCalls' = semCalls + 1
    /\ inLock' = [inLock EXCEPT ![th] = FALSE]
    /\ lReturn' = [lReturn EXCEPT ![th] = TRUE]
    /\ timed' = [timed EXCEPT ![th] = withTimeout]
    /\ spc' = [spc EXCEPT ![th] = "wait_lock"]
    /\ UNCHANGED <<libVars, poolVars, mCount, mWaiters, semOwner, inCount, semSignals,
                   semSpurious, semLog>>

HeldPost(th) ==
    SemPostHeld(th) \/ SemPostLock(th) \/ SemPostBody(th) \/ SemPostUnlock(th)

HeldTryWait(th) ==
    SemTryHeld(th) \/ SemTryLock(th) \/ SemTryBody(th) \/ SemTryUnlock(th)

HeldWait(th) ==
    \/ \E withTimeout \in BOOLEAN : SemWaitHeld(th, withTimeout)
    \/ SemWaitLock(th) \/ SemWaitInc(th) \/ SemWaitBlock(th) \/ SemWaitTimeout(th)
    \/ SemWaitSpurious(th) \/ SemWaitReacquire(th) \/ SemWaitDec(th) \/ SemWaitUnlock(th)

HeldNext ==
    \E th \in SemThreads :
        SemUserLock(th) \/ SemUserUnlock(th) \/ HeldPost(th) \/ HeldTryWait(th) \/ HeldWait(th)

HeldSpec == SemInit /\ [][HeldNext]_vars

\* ---------------------------------------------------------------- waiters and posts
\* The hand-off test: SemPairs threads call wait() without time-out on a
\* semaphore of count 0 and block; then the posting thread calls post()
\* SemPairs times.
SemPairs == IF 2 * NumSemThreads <= MaxSemOps THEN NumSemThreads ELSE MaxSemOps \div 2

SemLogCount(op, ret) ==
    Cardinality({i \in 1..Len(semLog) : semLog[i] = <<op, ret>>})

\* Calls of wait and of post started so far.
WaitsStarted ==
    SemLogCount("wait", TRUE) + SemLogCount("wait", FALSE)
    + Cardinality({th \in SemThreads :
          spc[th] \in {"wait_lock", "wait_inc", "wait_loop", "wait_blocked", "wait_reacq"}})
PostsStarted ==
    SemLogCount("post", TRUE)
    + Cardinality({th \in SemUsers : spc[th] \in {"post_lock", "post_body"}})

BlockedWaiters == {th \in SemThreads : spc[th] = "wait_blocked"}

HandoffWaitCall(th) ==
    /\ WaitsStarted < SemPairs
    /\ SemWaitCall(th, FALSE)

HandoffPostCall ==
    /\ PostsStarted < SemPairs
    /\ PostsStarted > 0 \/ Cardinality(BlockedWaiters) = SemPairs
    /\ SemPostCall(SemPoster)

HandoffWaiter(th) ==
    \/ HandoffWaitCall(th)
    \/ SemWaitLock(th) \/ SemWaitInc(th) \/ SemWaitBlock(th)
    \/ SemWaitReacquire(th) \/ SemWaitDec(th) \/ SemWaitUnlock(th)

HandoffPoster ==
    \/ HandoffPostCall
    \/ SemPostLock(SemPoster) \/ SemPostBody(SemPoster) \/ SemPostUnlock(SemPoster)

HandoffNext ==
    \/ \E th \in SemThreads : HandoffWaiter(th) \/ SemWaitSpurious(th)
    \/ HandoffPoster

HandoffInit == Construct({1}, 0) /\ SemConstruct({0}) /\ LibIdle

\* Every thread that can take a step is eventually scheduled.
HandoffFairness ==
    /\ \A th \in SemThreads : WF_vars(HandoffWaiter(th))
    /\ WF_vars(HandoffPoster)

HandoffSpec == HandoffInit /\ [][HandoffNext]_vars /\ HandoffFairness

\* ---------------------------------------------------------------- time-outs
\* The time-out test: threads call wait(inMaxTime) with inMaxTime > 0 on a
\* semaphore of count 0 that is never posted.
TimeoutWaitCall(th) == SemWaitCall(th, TRUE)

TimeoutWaiter(th) ==
    \/ SemWaitLock(th) \/ SemWaitInc(th) \/ SemWaitBlock(th) \/ SemWaitTimeout(th)
    \/ SemWaitReacquire(th) \/ SemWaitDec(th) \/ SemWaitUnlock(th)

TimeoutNext ==
    \E th \in SemThreads : TimeoutWaitCall(th) \/ TimeoutWaiter(th) \/ SemWaitSpurious(th)

TimeoutInit == Construct({1}, 0) /\ SemConstruct({0}) /\ LibIdle

\* Every thread that can take a step is eventually scheduled, and the time
\* of a blocked Condition::wait(inMaxTime) elapses.
TimeoutFairness == \A th \in SemThreads : WF_vars(TimeoutWaiter(th))

TimeoutSpec == TimeoutInit /\ [][TimeoutNext]_vars /\ TimeoutFairness

\* ---------------------------------------------------------------- Threading::Exception
\* A conversion that knows EDEADLK in every build.
convertNativeError_anyBuild(build, inError) ==
    IF build = "win32" /\ inError = ERROR_NOT_OWNER THEN "eMutexNotOwned"
    ELSE IF build = "posix" /\ inError = EPERM THEN "eMutexNotOwned"
    ELSE IF inError = EDEADLK THEN "eWouldDeadLock"
    ELSE "eOtherError"

\* Exception.cpp lines 80-94: the switch of convertNativeError; the cases
\* compiled depend on PACC_THREADS_WIN32 (lines 85-90).
convertNativeError(build, inError) ==
    IF build = "win32"
    THEN IF inError = ERROR_NOT_OWNER THEN "eMutexNotOwned"
         ELSE "eOtherError"
    ELSE IF inError = EPERM THEN "eMutexNotOwned"
         ELSE IF inError = EDEADLK THEN "eWouldDeadLock"
         ELSE "eOtherError"

\* Exception.cpp lines 100-106: the name written for mCode.
CodeName(code) ==
    IF code = "eMutexNotOwned" THEN "MutexNotOwned"
    ELSE IF code = "eWouldDeadLock" THEN "WouldDeadLock"
    ELSE IF code = "eRunning" THEN "Running"
    ELSE "OtherError"

\* Exception.cpp lines 97-110: "Threading: " + name + " (native): " or ": " + what()
getMessage(code, native, what) ==
    [name |-> CodeName(code), shown |-> (native # 0), native |-> native, what |-> what]

\* A call of the static convertNativeError(inError).
ExcConvert(inError) ==
    /\ excArg' = inError
    /\ excCode' = convertNativeError(excBuild, inError)
    /\ UNCHANGED <<poolVars, semVars, udpVars, xmlVars, qrVars, excBuild, mCode, mNativeCode, excWhat,
                   excMessage>>

\* Exception(inNativeCode, inMessage): the code is the converted native code.
ExcFromNative(what) ==
    /\ excArg >= 0
    /\ mCode' = excCode
    /\ mNativeCode' = excArg
    /\ excWhat' = what
    /\ UNCHANGED <<poolVars, semVars, udpVars, xmlVars, qrVars, excBuild, excArg, excCode, excMessage>>

\* Exception(inCode, inMessage): no native code.
ExcFromCode(code, what) ==
    /\ mCode' = code
    /\ mNativeCode' = 0
    /\ excWhat' = what
    /\ UNCHANGED <<poolVars, semVars, udpVars, xmlVars, qrVars, excBuild, excArg, excCode, excMessage>>

\* getMessage() of the exception
ExcGetMessage ==
    /\ excMessage' = getMessage(mCode, mNativeCode, excWhat)
    /\ UNCHANGED <<poolVars, semVars, udpVars, xmlVars, qrVars, excBuild, excArg, excCode, mCode,
                   mNativeCode, excWhat>>

ExcNext ==
    \/ \E e \in Natives : ExcConvert(e)
    \/ \E w \in Whats : ExcFromNative(w)
    \/ \E c \in Codes, w \in Whats : ExcFromCode(c, w)
    \/ ExcGetMessage

ExcInit ==
    /\ Construct({1}, 0) /\ SemConstruct({0})
    /\ ExcConstruct(Builds) /\ UdpConstruct /\ XmlConstruct({2}, {FALSE}) /\ QrConstruct

ExcSpec == ExcInit /\ [][ExcNext]_vars

\* ---------------------------------------------------------------- Socket::UDPServer
\* Positions inside acceptDatagrams.
UdpInside == {"u_test", "u_recv", "u_main", "u_report"}

\* A handler that leaves the loop after reporting.
AfterReport_leave == "u_returned"

\* lines 67-71: after the catch block the while of line 60 is tested again
AfterReport == "u_test"

\* line 59: mHalt = false
HaltOnEntry(h) == FALSE

\* halt(): the halt flag is set, by the caller before the call or by
\* another thread or main() during it.
UdpHalt ==
    /\ ~mHalt
    /\ upc \in UdpInside \cup {"idle"}
    /\ mHalt' = TRUE
    /\ udpHaltBefore' = (udpHaltBefore \/ upc = "idle")
    /\ UNCHANGED <<poolVars, semVars, excVars, xmlVars, qrVars, upc, lHalt, udpCount, udpReported, udpLast>>

\* lines 56-59: acceptDatagrams is called; lHalt = false; mHalt = false
UdpCall ==
    /\ upc = "idle"
    /\ lHalt' = FALSE
    /\ mHalt' = HaltOnEntry(mHalt)
    /\ upc' = "u_test"
    /\ UNCHANGED <<poolVars, semVars, excVars, xmlVars, qrVars, udpCount, udpReported, udpLast, udpHaltBefore>>

\* line 60: while(!lHalt && !mHalt)
UdpTest ==
    /\ upc = "u_test"
    /\ upc' = IF ~lHalt /\ ~mHalt THEN "u_recv" ELSE "u_returned"
    /\ ~lHalt /\ ~mHalt => udpCount < MaxDatagrams
    /\ UNCHANGED <<poolVars, semVars, excVars, xmlVars, qrVars, mHalt, lHalt, udpCount, udpReported, udpLast, udpHaltBefore>>

\* line 65: receiveDatagram returns a datagram
UdpReceive ==
    /\ upc = "u_recv"
    /\ udpCount' = udpCount + 1
    /\ udpLast' = "pending"
    /\ upc' = "u_main"
    /\ UNCHANGED <<poolVars, semVars, excVars, xmlVars, qrVars, mHalt, lHalt, udpReported, udpHaltBefore>>

\* line 65: receiveDatagram raises a Socket::Exception
UdpReceiveRaise ==
    /\ upc = "u_recv"
    /\ udpCount' = udpCount + 1
    /\ udpLast' = "socketError"
    /\ upc' = "u_report"
    /\ UNCHANGED <<poolVars, semVars, excVars, xmlVars, qrVars, mHalt, lHalt, udpReported, udpHaltBefore>>

\* line 66: lHalt = main(lDatagram, lPeer)
UdpMain(ret) ==
    /\ upc = "u_main"
    /\ lHalt' = ret
    /\ udpLast' = IF ret THEN "true" ELSE "false"
    /\ upc' = "u_test"
    /\ UNCHANGED <<poolVars, semVars, excVars, xmlVars, qrVars, mHalt, udpCount, udpReported, udpHaltBefore>>

\* line 66: main raises a Socket::Exception
UdpMainRaise ==
    /\ upc = "u_main"
    /\ udpLast' = "socketError"
    /\ upc' = "u_report"
    /\ UNCHANGED <<poolVars, semVars, excVars, xmlVars, qrVars, mHalt, lHalt, udpCount, udpReported, udpHaltBefore>>

\* line 66: main raises an exception that is not a Socket::Exception; the
\* handler of line 67 does not match and the exception leaves acceptDatagrams
UdpMainRaiseOther ==
    /\ upc = "u_main"
    /\ udpLast' = "otherError"
    /\ upc' = "u_escaped"
    /\ UNCHANGED <<poolVars, semVars, excVars, xmlVars, qrVars, mHalt, lHalt, udpCount, udpReported, udpHaltBefore>>

\* lines 67-70: the error is written to cerr and ignored
UdpReport ==
    /\ upc = "u_report"
    /\ udpReported' = udpReported + 1
    /\ upc' = AfterReport
    /\ UNCHANGED <<poolVars, semVars, excVars, xmlVars, qrVars, mHalt, lHalt, udpCount, udpLast, udpHaltBefore>>

\* The caller is back from acceptDatagrams and may call it again.
UdpAgain ==
    /\ upc \in {"u_returned", "u_escaped"}
    /\ upc' = "idle"
    /\ udpHaltBefore' = FALSE
    /\ UNCHANGED <<poolVars, semVars, excVars, xmlVars, qrVars, mHalt, lHalt, udpCount, udpReported, udpLast>>

\* A server whose main() raises nothing but Socket::Exception.
UdpNextSocket ==
    \/ UdpHalt \/ UdpCall \/ UdpTest
    \/ UdpReceive \/ UdpReceiveRaise
    \/ \E ret \in BOOLEAN : UdpMain(ret)
    \/ UdpMainRaise
    \/ UdpReport
    \/ UdpAgain

UdpNext ==
    \/ UdpNextSocket
    \/ UdpMainRaiseOther

UdpInit == Construct({1}, 0) /\ SemConstruct({0}) /\ LibIdle

UdpSpec == UdpInit /\ [][UdpNext]_vars

\* ================================================================ XML::Streamer
\* src/src/PACC/XML/Streamer.cpp. A string is a sequence of characters; the
\* stream is the sequence of the pieces written to it, each a token
\* [k, v, n]: "endl" (a line break followed by n spaces), "sp", "open"
\* ("<" and the name v), "gt" (">"), "empty" ("/>"), "close" ("</", the name
\* v and ">"), "attr" (v is name="value") and "text".
MaxCalls == 5

MaxDepth == 3

TagNames == {<<"a">>, <<"b">>}

AttrNames == {<<"k">>}

AttrValues == {<<"1">>, <<"<", "\"">>}

Texts == {<<>>, <<"x">>, <<"&", "<">>}

Tok(k, v, n) == [k |-> k, v |-> v, n |-> n]

Endl(n) == Tok("endl", <<>>, n)

Piece(k) == Tok(k, <<>>, 0)

\* The replacement strings of the switch of lines 108-124.
Entity(ch) ==
    CASE ch = "&" -> <<"&", "a", "m", "p", ";">>
      [] ch = "<" -> <<"&", "l", "t", ";">>
      [] ch = ">" -> <<"&", "g", "t", ";">>
      [] ch = "'" -> <<"&", "a", "p", "o", "s", ";">>
      [] ch = "\"" -> <<"&", "q", "u", "o", "t", ";">>
      [] OTHER -> <<ch>>

\* Streamer::convertToQuotes (lines 103-127): every character of inQuotes
\* is replaced; the search resumes after the "&" of the replacement, whose
\* other characters are not special.
RECURSIVE convertToQuotes(_, _)
convertToQuotes(ioString, inQuotes) ==
    IF ioString = <<>> THEN <<>>
    ELSE (IF Head(ioString) \in inQuotes THEN Entity(Head(ioString)) ELSE <<Head(ioString)>>)
         \o convertToQuotes(Tail(ioString), inQuotes)

\* The members the calls work on, as one value.
Streamer == [tags |-> mTags, closed |-> mClosed, one |-> mOneAttribute, out |-> mStream,
             content |-> tagContent, pc |-> xpc]

\* mTags.top().second; top() of an empty stack reads whatever is there.
TopSecond(st, garbage) ==
    IF st.tags = <<>> THEN garbage ELSE st.tags[Len(st.tags)][2]

Garbage(st) == IF st.tags = <<>> THEN BOOLEAN ELSE {FALSE}

\* The indentation written before ">" or "/>" when attributes are indented
\* (lines 83-85, 160-162, 182-184).
BeforeEnd(st, garbage) ==
    IF TopSecond(st, garbage) /\ mIndentAttributes /\ st.one
    THEN <<Endl((Len(st.tags) - 1) * mIndentWidth)>>
    ELSE <<>>

\* mClosed after closeTag (line 95).
AfterClose_keep(closed) == closed

AfterClose(closed) == TRUE

\* Streamer::closeTag (lines 79-96).
closeTag(st) ==
    IF st.tags = <<>> THEN [st EXCEPT !.pc = "aborted"]
    ELSE LET top == st.tags[Len(st.tags)]
             written ==
                 IF ~st.closed
                 THEN BeforeEnd(st, FALSE) \o <<Piece("empty")>>
                 ELSE (IF top[2] THEN <<Endl((Len(st.tags) - 1) * mIndentWidth)>> ELSE <<>>)
                      \o <<Tok("close", top[1], 0)>>
         IN  [st EXCEPT !.out = st.out \o written,
                        !.one = IF ~st.closed THEN FALSE ELSE st.one,
                        !.tags = SubSeq(st.tags, 1, Len(st.tags) - 1),
                        !.content = SubSeq(st.content, 1, Len(st.content) - 1),
                        !.closed = AfterClose(st.closed)]

\* Streamer::closeAll (lines 71-75).
RECURSIVE closeAll(_)
closeAll(st) ==
    IF st.tags = <<>> THEN [st EXCEPT !.out = st.out \o <<Endl(0)>>]
    ELSE closeAll(closeTag(st))

\* Streamer::openTag (lines 179-195).
openTag(st, inName, inIndent, garbage) ==
    LET ended == IF ~st.closed THEN BeforeEnd(st, garbage) \o <<Piece("gt")>> ELSE <<>>
        broken == IF (st.tags = <<>> /\ inIndent) \/ (st.tags # <<>> /\ TopSecond(st, garbage))
                  THEN <<Endl(Len(st.tags) * mIndentWidth)>>
                  ELSE <<>>
        lIndent == IF st.tags # <<>> /\ ~TopSecond(st, garbage) THEN FALSE ELSE inIndent
    IN  [st EXCEPT !.out = st.out \o ended \o broken \o <<Tok("open", inName, 0)>>,
                   !.one = IF ~st.closed THEN FALSE ELSE st.one,
                   !.tags = Append(st.tags, <<inName, lIndent>>),
                   !.content = Append([i \in DOMAIN st.content |-> i = Len(st.content) \/ st.content[i]],
                                      FALSE),
                   !.closed = FALSE]

\* Streamer::insertAttribute (lines 131-140).
insertAttribute(st, inName, inValue, garbage) ==
    LET before == IF mIndentAttributes /\ TopSecond(st, garbage)
                  THEN <<Endl(Len(st.tags) * mIndentWidth)>>
                  ELSE <<Piece("sp")>>
        written == inName \o <<"=", "\"">> \o convertToQuotes(inValue, {"&", "<", "\""}) \o <<"\"">>
    IN  [st EXCEPT !.out = st.out \o before \o <<Tok("attr", written, 0)>>,
                   !.one = TRUE]

\* Streamer::insertStringContent (lines 156-174).
insertStringContent(st, inString, inConvert, garbage) ==
    IF inString = <<>> THEN st
    ELSE LET ended == IF ~st.closed THEN BeforeEnd(st, garbage) \o <<Piece("gt")>> ELSE <<>>
             broken == IF st.tags # <<>> /\ TopSecond(st, garbage)
                       THEN <<Endl(Len(st.tags) * mIndentWidth)>>
                       ELSE <<>>
             lContent == IF inConvert THEN convertToQuotes(inString, {"&", "<"}) ELSE inString
         IN  [st EXCEPT !.out = st.out \o ended \o broken \o <<Tok("text", lContent, 0)>>,
                        !.one = IF ~st.closed THEN FALSE ELSE st.one,
                        !.content = [i \in DOMAIN st.content |-> i = Len(st.content) \/ st.content[i]],
                        !.closed = TRUE]

\* One call on the streamer: the members become those of st.
XmlCall(op, st) ==
    /\ xpc = "ready"
    /\ xmlCalls < MaxCalls
    /\ mTags' = st.tags
    /\ mClosed' = st.closed
    /\ mOneAttribute' = st.one
    /\ mStream' = st.out
    /\ tagContent' = st.content
    /\ xpc' = st.pc
    /\ xmlCalls' = xmlCalls + 1
    /\ xmlOp' = op
    /\ UNCHANGED <<poolVars, semVars, excVars, udpVars, qrVars, mIndentAttributes, mIndentWidth>>

XmlOpenTag(inName, inIndent) ==
    /\ Len(mTags) < MaxDepth
    /\ \E garbage \in Garbage(Streamer) :
           XmlCall("openTag", openTag(Streamer, inName, inIndent, garbage))

XmlInsertAttribute(inName, inValue) ==
    \E garbage \in Garbage(Streamer) :
        XmlCall("insertAttribute", insertAttribute(Streamer, inName, inValue, garbage))

XmlInsertStringContent(inString, inConvert) ==
    \E garbage \in Garbage(Streamer) :
        XmlCall("insertStringContent",
                insertStringContent(Streamer, inString, inConvert, garbage))

XmlCloseTag ==
    /\ xpc = "ready"
    /\ XmlCall("closeTag", closeTag(Streamer))

XmlCloseAll ==
    /\ xpc = "ready"
    /\ XmlCall("closeAll", closeAll(Streamer))

XmlNext ==
    \/ \E inName \in TagNames, inIndent \in BOOLEAN : XmlOpenTag(inName, inIndent)
    \/ \E inName \in AttrNames, inValue \in AttrValues : XmlInsertAttribute(inName, inValue)
    \/ \E inString \in Texts, inConvert \in BOOLEAN : XmlInsertStringContent(inString, inConvert)
    \/ XmlCloseTag
    \/ XmlCloseAll

XmlInit ==
    /\ Construct({1}, 0) /\ SemConstruct({0})
    /\ ExcConstruct({"posix"}) /\ UdpConstruct /\ XmlConstruct({2}, BOOLEAN) /\ QrConstruct

XmlSpec == XmlInit /\ [][XmlNext]_vars

\* ================================================================ QRandSequencer
\* src/unnamed/part_003. Vectors are sequences, so element [i] of the code is
\* element [i+1] here; a string is a sequence of characters.
MaxCount == 11

Dims == {0, 1, 2}

\* The head of l1000FirstPrimes (line 316).
Primes == <<2, 3>>

\* LONG_MAX where long has 32 bits.
LONG_MAX == 2147483647

DigitChars == <<"0", "1", "2", "3", "4", "5", "6", "7", "8", "9">>

\* operator<< of an unsigned value: its decimal digits.
RECURSIVE Decimal(_)
Decimal(n) ==
    IF n < 10 THEN <<DigitChars[n + 1]>>
    ELSE Decimal(n \div 10) \o <<DigitChars[(n % 10) + 1]>>

DigitValue(ch) == (CHOOSE d \in DOMAIN DigitChars : DigitChars[d] = ch) - 1

IsDigit(ch) == \E d \in DOMAIN DigitChars : DigitChars[d] = ch

\* operator>> of an unsigned value on the stream [rest, fail]: the longest
\* run of digits; without a digit the stream fails and the value is 0.
RECURSIVE TakeDigits(_, _, _)
TakeDigits(rest, value, any) ==
    IF rest # <<>> /\ IsDigit(Head(rest))
    THEN TakeDigits(Tail(rest), 10 * value + DigitValue(Head(rest)), TRUE)
    ELSE [val |-> value, strm |-> [rest |-> rest, fail |-> ~any]]

ReadUInt(strm) ==
    IF strm.fail THEN [val |-> 0, strm |-> strm] ELSE TakeDigits(strm.rest, 0, FALSE)

\* istream::get(): one character is taken off the stream.
Get(strm) ==
    IF strm.fail \/ strm.rest = <<>> THEN [strm EXCEPT !.fail = TRUE]
    ELSE [strm EXCEPT !.rest = Tail(strm.rest)]

\* The members, as one value.
Sequencer == [dim |-> mDimensionality, bases |-> mBases, perms |-> mPermutations,
              counters |-> mCounters, count |-> qCount, pc |-> qpc]

\* Lines 103-110: the counter of one base goes up by one, with carries.
RECURSIVE Carry(_, _, _)
Carry(counter, base, lIndex) ==
    IF lIndex <= Len(counter) /\ counter[lIndex] = base - 1
    THEN Carry([counter EXCEPT ![lIndex] = 0], base, lIndex + 1)
    ELSE IF lIndex = Len(counter) + 1 THEN Append(counter, 1)
         ELSE [counter EXCEPT ![lIndex] = counter[lIndex] + 1]

\* Lines 116-119: the loop over j, from lCountSizeI-1 down to 1.
RECURSIVE Unscramble(_, _, _, _, _, _)
Unscramble(perm, counter, base, j, value, lBasesPow) ==
    IF j < 1 THEN [value |-> value, pow |-> lBasesPow]
    ELSE Unscramble(perm, counter, base, j - 1,
                    value + perm[counter[j] + 1] * lBasesPow, lBasesPow * base)

\* Lines 113-120 for one base, its counter already incremented.
OutOf(perm, counter, base) ==
    Unscramble(perm, counter, base, Len(counter) - 1, perm[counter[Len(counter)] + 1], base)

\* QRandSequencer::generateSequence (lines 96-132): the members afterwards
\* and the two vectors returned. mCounters[i] of a vector shorter than
\* mBases is an access outside the vector.
generateSequence(q) ==
    IF Len(q.counters) < Len(q.bases)
    THEN [q |-> [q EXCEPT !.pc = "undefined"], values |-> <<>>, max |-> <<>>]
    ELSE LET counters == [i \in DOMAIN q.bases |-> Carry(q.counters[i], q.bases[i], 1)]
             out == [i \in DOMAIN q.bases |-> OutOf(q.perms[i], counters[i], q.bases[i])]
             lShouldReset == \E i \in DOMAIN q.bases : out[i].pow >= LONG_MAX \div q.bases[i]
         IN  [q |-> IF lShouldReset
                    THEN [q EXCEPT !.counters = <<>>, !.count = 0]
                    ELSE [q EXCEPT !.counters = counters, !.count = q.count + 1],
              values |-> [i \in DOMAIN q.bases |-> out[i].value],
              max |-> [i \in DOMAIN q.bases |-> out[i].pow]]

\* Lines 261-262: one base and its permutation, without its element [0].
RECURSIVE PermText(_, _)
PermText(perm, j) ==
    IF j > Len(perm) THEN <<>> ELSE Decimal(perm[j]) \o <<",">> \o PermText(perm, j + 1)

RECURSIVE BasesText(_, _)
BasesText(q, i) ==
    IF i > Len(q.bases) THEN <<>>
    ELSE Decimal(q.bases[i]) \o <<",">> \o PermText(q.perms[i], 2) \o BasesText(q, i + 1)

\* QRandSequencer::getState (lines 255-266).
getState(q) ==
    IF Len(q.bases) = 0 THEN <<>>
    ELSE Decimal(q.dim) \o <<",">> \o BasesText(q, 1) \o Decimal(q.count)

\* Lines 416-419: n elements of a permutation, each followed by get().
RECURSIVE ReadPerm(_, _, _)
ReadPerm(strm, n, perm) ==
    IF n = 0 THEN [perm |-> perm, strm |-> strm]
    ELSE LET r == ReadUInt(strm)
         IN  ReadPerm(Get(r.strm), n - 1, Append(perm, r.val))

\* Lines 411-420: n bases, each with its permutation.
RECURSIVE ReadBases(_, _, _, _)
ReadBases(strm, n, bases, perms) ==
    IF n = 0 THEN [bases |-> bases, perms |-> perms, strm |-> strm]
    ELSE LET r == ReadUInt(strm)
             p == ReadPerm(Get(r.strm), IF r.val > 0 THEN r.val - 1 ELSE 0, <<0>>)
         IN  ReadBases(p.strm, n - 1, Append(bases, r.val), Append(perms, p.perm))

\* Lines 427-432: the digits of the count in one base, lowest first.
RECURSIVE DigitsOf(_, _)
DigitsOf(lCounterI, base) ==
    IF lCounterI = 0 \/ base = 0 THEN <<>>
    ELSE LET lRemaining == lCounterI % base
         IN  <<lRemaining>> \o (IF base = 1 THEN <<>>
                                ELSE DigitsOf((lCounterI - lRemaining) \div base, base))

\* Lines 396-401: what setState has done when it returns on an empty string.
EmptyState(q) == [q EXCEPT !.bases = <<>>, !.counters = <<>>, !.perms = <<>>]

\* QRandSequencer::setState (lines 393-435).
setState(q, inState) ==
    IF inState = <<>> THEN EmptyState(q)
    ELSE LET d == ReadUInt([rest |-> inState, fail |-> FALSE])
             lDim == d.val + (d.val % 2)
             b == ReadBases(Get(d.strm), lDim, <<>>, <<>>)
             c == ReadUInt(b.strm)
         IN  [q EXCEPT !.dim = d.val,
                       !.bases = b.bases,
                       !.perms = b.perms,
                       !.count = c.val,
                       !.counters = [i \in 1..lDim |-> DigitsOf(c.val, b.bases[i])]]

\* What std::random_shuffle can leave: the first n primes in any order
\* (line 374), and for a base the values 0..base-1 in any order with 0
\* first (lines 382-383).
ShuffledBases(n) ==
    {b \in [1..n -> {Primes[i] : i \in 1..n}] : \A i, j \in 1..n : b[i] = b[j] => i = j}

ShuffledPerms(base) ==
    {p \in [1..base -> 0..(base - 1)] :
        p[1] = 0 /\ \A i, j \in 1..base : p[i] = p[j] => i = j}

QrCall(op, q) ==
    /\ qpc = "ready"
    /\ mDimensionality' = q.dim
    /\ mBases' = q.bases
    /\ mPermutations' = q.perms
    /\ mCounters' = q.counters
    /\ qCount' = q.count
    /\ qpc' = q.pc
    /\ qrOp' = op
    /\ UNCHANGED <<poolVars, semVars, excVars, udpVars, xmlVars>>

\* QRandSequencer::reset (lines 312-388).
QrReset(inDimensionality) ==
    LET lDim == inDimensionality + (inDimensionality % 2)
    IN  \E bases \in ShuffledBases(lDim) :
            \E perms \in [1..lDim -> UNION {ShuffledPerms(Primes[i]) : i \in 1..lDim}] :
                /\ \A i \in 1..lDim : perms[i] \in ShuffledPerms(bases[i])
                /\ QrCall("reset", [dim |-> inDimensionality, bases |-> bases, perms |-> perms,
                                    counters |-> [i \in 1..lDim |-> <<>>], count |-> 0,
                                    pc |-> "ready"])
                /\ wasReset' = TRUE
                /\ UNCHANGED <<qrState, qrSnap, qrOut>>

QrGenerateSequence ==
    /\ qCount < MaxCount
    /\ LET g == generateSequence(Sequencer)
       IN  /\ QrCall("generateSequence", g.q)
           /\ qrOut' = [values |-> g.values, max |-> g.max]
    /\ UNCHANGED <<qrState, qrSnap, wasReset>>

QrGetState ==
    /\ QrCall("getState", Sequencer)
    /\ qrState' = getState(Sequencer)
    /\ qrSnap' = [dim |-> mDimensionality, bases |-> mBases, perms |-> mPermutations,
                  counters |-> mCounters, count |-> qCount, pc |-> qpc, reset |-> wasReset]
    /\ UNCHANGED <<qrOut, wasReset>>

\* setState of the string the latest getState returned.
QrSetState ==
    /\ qrState # <<"none">>
    /\ QrCall("setState", setState(Sequencer, qrState))
    /\ UNCHANGED <<qrState, qrSnap, qrOut, wasReset>>

QrNext ==
    \/ \E inDimensionality \in Dims : QrReset(inDimensionality)
    \/ QrGenerateSequence
    \/ QrGetState
    \/ QrSetState

QrInit ==
    /\ Construct({1}, 0) /\ SemConstruct({0})
    /\ ExcConstruct({"posix"}) /\ UdpConstruct /\ XmlConstruct({2}, {FALSE}) /\ QrConstruct

QrSpec == QrInit /\ [][QrNext]_vars

\* ================================================================ properties
\* C1: FIFO dequeue order. The tasks dequeued so far are, in order, the
\* first tasks appended by push, and the queue holds the rest in push order.
C1_FifoDequeueOrder ==
    /\ Len(popOrder) <= Len(pushOrder)
    /\ popOrder = SubSeq(pushOrder, 1, Len(popOrder))
    /\ mTasks = SubSeq(pushOrder, Len(popOrder) + 1, Len(pushOrder))

\* Two workers have dequeued every task of a full workload, one of them a
\* task that was pushed twice.
C1_Witness ==
    /\ inSlaves = NumWorkers
    /\ Len(popOrder) = MaxPushes
    /\ \E t \in Tasks : Count(popOrder, t) >= 2

\* C2: at most one worker per task. No two workers are between setting a
\* task's mRunning to true and setting it to false, and every push of a task
\* accounts for exactly one false->true transition of its mRunning flag: the
\* pushes of t are those still queued, those dequeued and not yet started,
\* and those that made the transition.
C2_OneWorkerPerTask ==
    \A t \in Tasks :
        /\ Cardinality({w \in Workers : Running(w, t)}) <= 1
        /\ runCount[t] + Cardinality({w \in Workers : PreRunning(w, t)})
              + Count(mTasks, t) = Count(pushOrder, t)

\* A task runs for the second time while the other worker runs another task.
C2_Witness ==
    \E t \in Tasks, w1, w2 \in Workers :
        /\ w1 # w2
        /\ runCount[t] = 2
        /\ Running(w1, t)
        /\ pc[w2] \in RunRegion

\* C3: no stranded task. Every push that has returned is eventually followed
\* by the completed transition of that task, for the n-th push of a task as
\* for the first, whether or not a worker was waiting when push signalled.
C3_NoStrandedTask ==
    \A t \in Tasks : \A n \in 1..LivePushes :
        (pushed[t] >= n) ~> (doneCount[t] >= n)

\* A task pushed while every worker was busy has been completed.
C3_Witness ==
    \E t \in lostSignal : doneCount[t] = Count(pushOrder, t) /\ mCompleted[t]

WaiterPending == pc[Waiter] \in {"x_lock", "x_check", "x_wait", "x_woken"}

\* C4: completion visibility. The worker writes mCompleted and broadcasts
\* while it holds the task's lock, and a caller that waits under the task's
\* lock for mCompleted of a pushed task eventually returns.
C4_CompletionVisible ==
    /\ [](\A w \in Workers :
            pc[w] \in {"w_setdone", "w_tunlock2"} => taskOwner[lTask[w]] = w)
    /\ (WaiterPending ~> pc[Waiter] = "x_done")

\* The caller blocked on the condition before the task was completed and
\* has returned.
C4_Witness ==
    /\ pc[Waiter] = "x_done"
    /\ waiterBlocked

DtorStarted == pc[Dtor] # "d_idle"
DtorDone == pc[Dtor] = "d_done"

\* The first n tasks in push order.
FirstPushed(n) == {pushOrder[i] : i \in 1..(IF n < Len(pushOrder) THEN n ELSE Len(pushOrder))}

\* C5: shutdown terminates. Once the destructor has taken the pool lock it
\* returns, with every worker of the pool out of its loop; and when it has
\* returned the first K pushed tasks have been set running.
C5_ShutdownTerminates ==
    /\ [](DtorDone => \A t \in FirstPushed(inSlaves) : runCount[t] >= 1)
    /\ (DtorStarted ~> (DtorDone /\ \A w \in 1..inSlaves : pc[w] = "w_exit"))

\* The destructor has returned from a pool that had more pending tasks than
\* workers when destruction began.
C5_Witness ==
    /\ DtorDone
    /\ dtorPending > inSlaves

\* C6: queue drained before cancellation. Where the destructor sets cancel
\* flags (line 123) and from then on, the queue is empty and every pushed
\* task has been dequeued.
C6_DrainedBeforeCancel ==
    (pc[Dtor] = "d_cancel" \/ \E w \in Workers : mCancel[w]) =>
        /\ mTasks = <<>>
        /\ popOrder = pushOrder

\* The destructor found tasks queued, and is setting the cancel flags.
C6_Witness ==
    /\ pc[Dtor] = "d_cancel"
    /\ dtorPending > 0
    /\ \E w \in Workers : mCancel[w]

\* C7: no running task is aborted by shutdown. A worker leaves main() only
\* by its return and goes on to the completed transition; it leaves the
\* lines 76-90 only after line 90; it reaches line 90 only by the transition
\* mRunning = false, mCompleted = true; and it leaves its loop only at the
\* test of line 67.
C7_RunningNotAborted ==
    [][\A w \in Workers :
        /\ (pc[w] = "w_main" /\ pc'[w] # "w_main") => pc'[w] = "w_tlock2"
        /\ (pc[w] \in TaskRegion /\ pc'[w] \notin TaskRegion) =>
               (pc[w] = "w_tunlock2" /\ pc'[w] = "w_top")
        /\ (pc[w] # "w_tunlock2" /\ pc'[w] = "w_tunlock2") =>
               /\ pc[w] = "w_setdone"
               /\ ~mRunning'[lTask[w]]
               /\ mCompleted'[lTask[w]]
               /\ doneCount'[lTask[w]] = doneCount[lTask[w]] + 1
        /\ (pc[w] # "w_exit" /\ pc'[w] = "w_exit") => (pc[w] = "w_top" /\ mCancel[w])
    ]_vars

\* A worker whose cancel flag was set while its task was running has
\* completed the task and left its loop.
C7_Witness ==
    \E w \in cancelledRunning :
        /\ pc[w] = "w_exit"
        /\ mCompleted[lTask[w]]
        /\ ~mRunning[lTask[w]]

\* C8 as stated: the destructor can return while a task is still running,
\* that is, deleting a slave whose task is running does not block.
C8_ReturnsWhileRunning ==
    (pc[Dtor] = "d_join" /\ dI <= inSlaves /\ pc[dI] \in RunRegion) => ENABLED DtorJoin

\* C8 amended: when the destructor has returned, every worker has left its
\* loop, no task is running and every pushed task has been completed.
C8_ReturnsAfterCompletion ==
    DtorDone =>
        /\ \A w \in 1..inSlaves : pc[w] = "w_exit"
        /\ \A t \in Tasks :
            /\ ~mRunning[t]
            /\ doneCount[t] = Count(pushOrder, t)
            /\ Count(pushOrder, t) > 0 => mCompleted[t]

\* The destructor cancelled a worker whose task was running, and returned.
C8_Witness ==
    /\ DtorDone
    /\ cancelledRunning # {}

\* C9: a worker that has set mRunning always goes on to the completed
\* transition and keeps serving: a task set running more often than
\* completed is in the hands of a worker between lines 80 and 88, and no
\* worker is lost.
C9_CompletionAlwaysPerformed ==
    /\ \A t \in Tasks :
        runCount[t] > doneCount[t] => \E w \in Workers : Running(w, t)
    /\ \A w \in Workers : pc[w] # "w_dead"

\* Resources available after the first k logged operations: the initial
\* count, plus the posts, minus the acquisitions that returned true.
SemPosts(k) == Cardinality({i \in 1..k : semLog[i][1] = "post"})
SemAcquired(k) == Cardinality({i \in 1..k : semLog[i][1] # "post" /\ semLog[i][2]})
SemAvailable(k) == inCount + SemPosts(k) - SemAcquired(k)

\* C10: tryWait returns true exactly when a resource is available: on a
\* semaphore constructed with count 0 it returns false until a post, and n
\* posts enable exactly n successful acquisitions.
C10_TryWaitAfterPost ==
    \A i \in 1..Len(semLog) :
        semLog[i][1] = "tryWait" => (semLog[i][2] <=> SemAvailable(i - 1) > 0)

\* On a semaphore constructed with count 0: tryWait fails, post, tryWait
\* succeeds, tryWait fails.
C10_Witness ==
    /\ inCount = 0
    /\ semLog = << <<"tryWait", FALSE>>, <<"post", TRUE>>, <<"tryWait", TRUE>>,
                   <<"tryWait", FALSE>> >>
    /\ \A th \in SemThreads : spc[th] = "idle"

\* The hand-off test has ended: every call has returned.
HandoffEnded ==
    /\ \A th \in SemUsers : spc[th] = "idle"
    /\ SemLogCount("post", TRUE) = SemPairs
    /\ SemLogCount("wait", TRUE) = SemPairs

\* C11: N waiters, N posts. With N threads blocked in wait() on a semaphore
\* of count 0 and N calls of post(), every waiter returns true, the count
\* is never negative, and the run ends with count 0 and no waiter.
C11_WaitersAllReleased ==
    /\ [](mCount >= 0 /\ SemLogCount("wait", FALSE) = 0)
    /\ <>[](HandoffEnded /\ mCount = 0 /\ mWaiters = 0)

\* Several waiters were released by as many posts, one of them after a
\* wake-up that found no resource.
C11_Witness ==
    /\ HandoffEnded
    /\ SemPairs >= 2
    /\ semSignals = SemPairs
    /\ semSpurious > 0

\* Threads between line 111 (mWaiters += 1) and line 117 (mWaiters -= 1).
InWait == {th \in SemThreads : spc[th] \in {"wait_loop", "wait_blocked", "wait_reacq"}}

\* C12: time-out. On a semaphore that is never posted and whose count is 0,
\* every wait(t) with t > 0 returns, and returns false; the count is never
\* changed; mWaiters counts exactly the calls in progress, so every return
\* restores the value it had before the call; and the caller returns
\* normally, without the mutex.
C12_TimeoutReturnsFalse ==
    /\ [](/\ mCount = inCount
          /\ SemLogCount("wait", TRUE) = 0
          /\ mWaiters = Cardinality(InWait)
          /\ \A th \in SemThreads :
                /\ spc[th] = "wait_unlock" => ~lReturn[th]
                /\ spc[th] = "idle" => semOwner # th)
    /\ \A th \in SemThreads : (spc[th] # "idle") ~> (spc[th] = "idle" /\ ~lReturn[th])

\* Two calls have timed out, one of them after a spurious wake-up, and the
\* semaphore is as it was constructed.
C12_Witness ==
    /\ \A th \in SemThreads : spc[th] = "idle"
    /\ SemLogCount("wait", FALSE) >= 2
    /\ semSpurious > 0
    /\ mCount = 0
    /\ mWaiters = 0

WaitLabels == {"wait_lock", "wait_inc", "wait_loop", "wait_blocked", "wait_reacq", "wait_unlock"}

\* C13: wait returns false only on time-out. A thread that comes back from
\* Condition::wait with true (signalled or spurious) and finds mCount <= 0
\* blocks again; wait leaves its loop with false only in a call with
\* inMaxTime > 0, and then leaves mCount alone; it leaves its loop with true
\* only at mCount > 0, which it decrements by exactly 1. A call that waits
\* indefinitely never holds false.
C13_FalseOnlyOnTimeout ==
    [][\A th \in SemThreads :
        /\ (spc[th] \in WaitLabels /\ ~timed[th]) => lReturn[th]
        /\ (spc[th] = "wait_loop" /\ spc'[th] # "wait_loop" /\ lReturn[th] /\ mCount <= 0)
               => spc'[th] = "wait_blocked"
        /\ (spc[th] = "wait_loop" /\ spc'[th] = "wait_unlock" /\ ~lReturn[th])
               => (timed[th] /\ mCount' = mCount /\ semLog' = Append(semLog, <<"wait", FALSE>>))
        /\ (spc[th] = "wait_loop" /\ spc'[th] = "wait_unlock" /\ lReturn[th])
               => (mCount > 0 /\ mCount' = mCount - 1
                   /\ semLog' = Append(semLog, <<"wait", TRUE>>))
    ]_vars

\* A thread waiting indefinitely was signalled by a post, found the resource
\* taken by a tryWait of the other thread, and is blocked again.
C13_Witness ==
    \E th \in SemThreads :
        /\ spc[th] = "wait_blocked"
        /\ ~timed[th]
        /\ semSignals > 0
        /\ SemLogCount("tryWait", TRUE) > 0
        /\ mCount = 0

\* C14: no lock is held across task execution. A worker executing main()
\* (line 84) holds neither the pool mutex nor a task mutex.
C14_NoLockAcrossMain ==
    \A w \in Workers :
        pc[w] = "w_main" =>
            /\ poolOwner # w
            /\ \A t \in Tasks : taskOwner[t] # w

\* While one worker executes main(), the producer has appended a task under
\* the pool mutex and the other worker has dequeued one.
C14_Witness ==
    \E w1, w2 \in Workers :
        /\ w1 # w2
        /\ pc[w1] = "w_main"
        /\ runCount[lTask[w1]] = 1
        /\ pc[w2] = "w_tlock1"
        /\ pc[Producer] = "p_unlock"

\* push() has been called and has not returned.
PushPending == pc[Producer] \in {"p_lock", "p_push", "p_unlock"}

\* C15: push never blocks on the queue or on the workers. Whatever the
\* length of the queue, and even if no main() ever returns, a push that has
\* been called appends its task and returns; it waits at line 140 only, for
\* the pool mutex.
C15_PushReturns ==
    /\ [](pc[Producer] = "p_push" => poolOwner = Producer)
    /\ [](\A t \in Tasks :
            Count(pushOrder, t) =
                pushed[t] + (IF pc[Producer] = "p_unlock" /\ lTask[Producer] = t THEN 1 ELSE 0))
    /\ (PushPending ~> pc[Producer] = "p_idle")

\* push has returned while every worker of the pool is inside main() and a
\* task is left in the queue.
C15_Witness ==
    /\ pc[Producer] = "p_idle"
    /\ \A w \in 1..inSlaves : pc[w] = "w_main"
    /\ inSlaves = NumWorkers
    /\ mTasks # <<>>
    /\ Len(pushOrder) = MaxPushes

\* Thread th holds mutex owner o and is the thread taking the step.
WrittenBy(o) == o # 0 /\ pc'[o] # pc[o]

\* C16: lock discipline. Every step that changes the queue or a cancel flag
\* is taken by the holder of the pool mutex, and every step that changes
\* mRunning or mCompleted of a task, the reset of push included, is taken
\* by the holder of that task's mutex.
C16_WritesUnderLock ==
    [][/\ mTasks' # mTasks => WrittenBy(poolOwner)
       /\ mCancel' # mCancel => poolOwner = Dtor
       /\ \A t \in Tasks :
            (mRunning'[t] # mRunning[t] \/ mCompleted'[t] # mCompleted[t])
                => WrittenBy(taskOwner[t])
    ]_vars

\* The step wakes every thread blocked on the condition of task t.
WakesAll(t) ==
    /\ (pc[Waiter] = "x_wait" /\ lTask[Waiter] = t) => pc'[Waiter] = "x_woken"
    /\ (pc[Dtor] = "d_wait" /\ lTask[Dtor] = t) => pc'[Dtor] = "d_woken"

\* C17: task life cycle. A step changes (mRunning, mCompleted) of a task
\* only from idle (false, false) to running (true, false) at lines 80-81, or
\* from running to completed (false, true) at lines 87-89, both taken by a
\* worker that dequeued the task and waking every thread blocked on the
\* task; or to idle, by the reset of push.
C17_TaskLifeCycle ==
    [][\A t \in Tasks :
        <<mRunning'[t], mCompleted'[t]>> # <<mRunning[t], mCompleted[t]>> =>
            \/ /\ <<mRunning[t], mCompleted[t]>> = <<FALSE, FALSE>>
               /\ <<mRunning'[t], mCompleted'[t]>> = <<TRUE, FALSE>>
               /\ \E w \in Workers :
                     lTask[w] = t /\ pc[w] = "w_setrun" /\ pc'[w] = "w_tunlock1"
               /\ WakesAll(t)
            \/ /\ <<mRunning[t], mCompleted[t]>> = <<TRUE, FALSE>>
               /\ <<mRunning'[t], mCompleted'[t]>> = <<FALSE, TRUE>>
               /\ \E w \in Workers :
                     lTask[w] = t /\ pc[w] = "w_setdone" /\ pc'[w] = "w_tunlock2"
               /\ WakesAll(t)
            \/ /\ <<mRunning'[t], mCompleted'[t]>> = <<FALSE, FALSE>>
               /\ pc[Producer] = "p_idle" /\ pc'[Producer] = "p_lock"
               /\ lTask'[Producer] = t
    ]_vars

\* A task has gone through the cycle twice, and a caller that blocked on it
\* has been woken and has seen it completed.
C17_Witness ==
    \E t \in Tasks :
        /\ runCount[t] = 2
        /\ doneCount[t] = 2
        /\ mCompleted[t] /\ ~mRunning[t]
        /\ lTask[Waiter] = t
        /\ waiterBlocked
        /\ pc[Waiter] = "x_done"

\* The destructor has not reached line 123.
BeforeTeardown ==
    pc[Dtor] \in {"d_idle", "d_check", "d_tlock", "d_unlock", "d_twait", "d_wait",
                  "d_woken", "d_tunlock", "d_relock"}

\* C18: the cancel flag. Every mCancel is false until the destructor reaches
\* line 123; a flag becomes true only in the step of line 123 for that
\* slave, taken by the destructor; a flag that is true stays true; and from
\* line 125 on the flag of every slave of the pool is true.
C18_CancelMonotonic ==
    /\ [](BeforeTeardown => \A w \in Workers : ~mCancel[w])
    /\ [](pc[Dtor] \in {"d_unlock2", "d_join", "d_done"} =>
              \A w \in 1..inSlaves : mCancel[w])
    /\ [][\A w \in Workers :
            /\ mCancel[w] => mCancel'[w]
            /\ (~mCancel[w] /\ mCancel'[w]) =>
                   (pc[Dtor] = "d_cancel" /\ dI = w /\ w <= inSlaves)
         ]_vars

\* The destructor of a pool whose queue was not empty has returned: every
\* slave has its flag set and has left its loop.
C18_Witness ==
    /\ pc[Dtor] = "d_done"
    /\ inSlaves = NumWorkers
    /\ dtorPending > 0
    /\ \A w \in Workers : mCancel[w] /\ pc[w] = "w_exit"

\* Threads woken from Condition::wait by the step.
WokenBy == {v \in SemThreads : spc[v] = "wait_blocked" /\ spc'[v] = "wait_reacq"}

\* C19: post. Every step of lines 70-72 adds exactly 1 to mCount and calls
\* Condition::signal if and only if mWaiters > 0; a signal wakes one blocked
\* thread if there is one; without waiters nothing is signalled and no
\* thread is touched. mCount grows in no other step, and it always equals
\* the initial count plus the posts minus the successful acquisitions, so a
\* resource posted without waiters is there for a later wait or tryWait.
C19_PostCountsAndSignals ==
    /\ [](mCount = SemAvailable(Len(semLog)))
    /\ [][/\ \A th \in SemUsers :
               (spc[th] = "post_body" /\ spc'[th] # "post_body") =>
                   /\ mCount' = mCount + 1
                   /\ mWaiters' = mWaiters
                   /\ semSignals' = semSignals + (IF mWaiters > 0 THEN 1 ELSE 0)
                   /\ Cardinality(WokenBy) =
                         (IF mWaiters > 0 /\ BlockedWaiters # {} THEN 1 ELSE 0)
          /\ mCount' > mCount => \E th \in SemUsers : spc[th] = "post_body"
          /\ semSignals' # semSignals => \E th \in SemUsers : spc[th] = "post_body"
         ]_vars

\* A post made without waiters signalled nothing, and the wait called after
\* it returned true.
C19_Witness ==
    /\ inCount = 0
    /\ semSignals = 0
    /\ semLog = << <<"post", TRUE>>, <<"wait", TRUE>> >>
    /\ \A th \in SemThreads : spc[th] = "idle"

TryLabels == {"try_lock", "try_body", "try_unlock"}

\* C20: tryWait. A thread inside tryWait goes from line 86 to line 93 without
\* a Condition::wait; lines 88-90 are executed under the mutex, return true
\* exactly at mCount > 0, then decrement mCount by exactly 1, and otherwise
\* leave mCount alone; no step of tryWait changes mWaiters.
C20_TryWaitNeverWaits ==
    /\ [](\A th \in SemThreads : spc[th] \in {"try_body", "try_unlock"} => semOwner = th)
    /\ [][\A th \in SemThreads :
            /\ (spc[th] \in TryLabels /\ spc'[th] # spc[th]) =>
                   /\ spc'[th] \in TryLabels \cup {"idle"}
                   /\ mWaiters' = mWaiters
            /\ (spc[th] = "try_body" /\ spc'[th] # "try_body") =>
                   /\ lReturn'[th] = (mCount > 0)
                   /\ mCount' = (IF mCount > 0 THEN mCount - 1 ELSE mCount)
                   /\ semLog' = Append(semLog, <<"tryWait", mCount > 0>>)
         ]_vars

\* tryWait has taken the only resource; a later tryWait returned false while
\* the other thread is blocked in wait, and left mCount and mWaiters alone.
C20_Witness ==
    /\ SemLogCount("tryWait", TRUE) = 1
    /\ SemLogCount("tryWait", FALSE) = 1
    /\ \E th \in SemThreads : spc[th] = "wait_blocked"
    /\ \E th \in SemThreads : spc[th] = "idle" /\ ~lReturn[th]
    /\ mCount = 0
    /\ mWaiters = 1

\* C21: conservation. mCount is never negative and always equals the count
\* the semaphore was constructed with, plus the posts, minus the calls of
\* tryWait and wait that returned true, in particular whenever the mutex is
\* free; and a wait that returns false leaves mCount alone, also when a post
\* has made it positive in the meantime.
C21_Conservation ==
    /\ [](/\ mCount >= 0
          /\ semOwner = 0 => mCount = inCount + SemPosts(Len(semLog)) - SemAcquired(Len(semLog)))
    /\ [][\A th \in SemThreads :
            (spc[th] = "wait_loop" /\ spc'[th] = "wait_unlock" /\ ~lReturn[th])
                => mCount' = mCount
         ]_vars

\* A post arrived while a wait was timing out: the wait returned false, and
\* the resource was taken by the tryWait that followed.
C21_Witness ==
    /\ inCount = 0
    /\ semLog = << <<"post", TRUE>>, <<"wait", FALSE>>, <<"tryWait", TRUE>> >>
    /\ semSignals = 1
    /\ semOwner = 0
    /\ mCount = 0

\* C22: waiters accounting. mWaiters is the number of threads between line
\* 111 and line 117 of wait, blocked or not; it is never negative; and it is
\* 0 when no thread is inside wait, whether the calls returned true or false.
C22_WaitersAccounting ==
    /\ mWaiters = Cardinality(InWait)
    /\ mWaiters >= 0
    /\ (\A th \in SemThreads : spc[th] \notin WaitLabels) => mWaiters = 0

\* One wait has returned true without blocking and one has timed out; no
\* thread is inside wait.
C22_Witness ==
    /\ \A th \in SemThreads : spc[th] = "idle"
    /\ inCount = 1
    /\ semSignals = 0
    /\ SemLogCount("post", TRUE) = 0
    /\ SemLogCount("wait", TRUE) = 1
    /\ SemLogCount("wait", FALSE) = 1
    /\ mWaiters = 0

\* Thread th is inside a call made with inLock == false.
InHeldCall(th) ==
    /\ ~inLock[th]
    /\ spc[th] \in {"post_lock", "post_body", "post_unlock"} \cup TryLabels \cup WaitLabels

\* C23: caller-held lock. A thread that holds the mutex and calls
\* post(false), tryWait(false) or wait(inMaxTime, false) keeps the mutex
\* through the call, except while it is blocked in Condition::wait, which
\* releases the mutex and re-acquires it before it returns; no line of the
\* call acquires or releases the mutex; and the call returns to a caller
\* that still holds it.
C23_CallerKeepsLock ==
    /\ [](\A th \in SemThreads :
            /\ spc[th] = "held" => semOwner = th
            /\ (InHeldCall(th) /\ spc[th] \notin {"wait_blocked", "wait_reacq"})
                   => semOwner = th)
    /\ [][\A th \in SemThreads :
            /\ (InHeldCall(th) /\ spc'[th] # spc[th] /\ semOwner' # semOwner) =>
                   \/ spc[th] = "wait_loop" /\ spc'[th] = "wait_blocked" /\ semOwner' = 0
                   \/ spc[th] = "wait_reacq" /\ spc'[th] = "wait_loop" /\ semOwner' = th
            /\ (InHeldCall(th) /\ spc'[th] \notin {"post_lock", "post_body", "post_unlock"}
                                               \cup TryLabels \cup WaitLabels)
                   => (spc'[th] = "held" /\ semOwner' = th)
         ]_vars

\* A thread blocked in wait(0, false) was released by the post(false) of the
\* other thread and has returned true, holding the mutex.
C23_Witness ==
    \E th \in SemThreads :
        /\ spc[th] = "held"
        /\ semOwner = th
        /\ ~inLock[th]
        /\ ~timed[th]
        /\ inCount = 0
        /\ semSignals = 1
        /\ semLog = << <<"post", TRUE>>, <<"wait", TRUE>> >>

\* Positions of a worker from line 67 to line 72 and after leaving the loop.
IdleRegion == {"w_top", "w_lock", "w_check", "w_wait", "w_woken", "w_exit"}

\* C24: a cancelled worker dequeues nothing. A worker whose mCancel is set
\* and that holds no task takes none: at line 72 it leaves the queue and its
\* lTask alone and releases the pool mutex (line 92), whatever the queue
\* holds, and at line 67 it leaves its loop.
C24_CancelledTakesNothing ==
    [][\A w \in Workers :
        (mCancel[w] /\ pc[w] \in IdleRegion) =>
            /\ pc'[w] \in IdleRegion
            /\ lTask'[w] = lTask[w]
            /\ (pc[w] = "w_check" /\ pc'[w] # "w_check") =>
                   (pc'[w] = "w_top" /\ poolOwner' = 0 /\ mTasks' = mTasks
                    /\ popOrder' = popOrder)
            /\ (pc[w] = "w_top" /\ pc'[w] # "w_top") => pc'[w] = "w_exit"
    ]_vars

\* A cancelled worker found a task in the queue when it held the pool
\* mutex, and has left its loop; the task is still queued.
C24_Witness ==
    \E w \in cancelSkipped :
        /\ pc[w] = "w_exit"
        /\ mTasks # <<>>
        /\ Len(popOrder) < Len(pushOrder)

\* Positions of the destructor from line 115 to line 118, before it waits.
DtorPicked == {"d_tlock", "d_unlock", "d_twait"}

\* The task is in the queue.
Queued(t) == \E i \in 1..Len(mTasks) : mTasks[i] = t

\* C25: the destructor cannot miss the running broadcast of the task it
\* waits on. From line 115 until it blocks in line 118 the task it picked
\* is still queued with both flags false (the pool mutex, then the task
\* mutex, keep every worker away from it); while it is blocked the flags are
\* still false; the step that sets mRunning of that task finds the
\* destructor blocked in line 118 and wakes it; and every wait of the drain
\* loop is followed by a new test of line 112.
C25_NoMissedBroadcast ==
    /\ [](pc[Dtor] \in DtorPicked =>
            /\ Queued(lTask[Dtor]) \/ pc[Dtor] = "d_twait"
            /\ \A w \in Workers : lTask[w] = lTask[Dtor] => pc[w] \notin RunRegion \cup {"w_setrun"}
            /\ ~mRunning[lTask[Dtor]] /\ ~mCompleted[lTask[Dtor]])
    /\ [](pc[Dtor] = "d_wait" => ~mRunning[lTask[Dtor]] /\ ~mCompleted[lTask[Dtor]])
    /\ [][\A t \in Tasks :
            (/\ ~mRunning[t] /\ mRunning'[t]
             /\ lTask[Dtor] = t
             /\ pc[Dtor] \in DtorPicked \cup {"d_wait"}) =>
                (pc[Dtor] = "d_wait" /\ pc'[Dtor] = "d_woken")]_vars
    /\ (pc[Dtor] = "d_wait") ~> (pc[Dtor] = "d_check")

\* The destructor has been woken by the running broadcast of the task it
\* waited on, without any spurious wake-up; the worker is about to run it.
C25_Witness ==
    /\ pc[Dtor] = "d_woken"
    /\ spurious = 0
    /\ mRunning[lTask[Dtor]] /\ ~mCompleted[lTask[Dtor]]
    /\ \E w \in Workers : pc[w] = "w_tunlock1" /\ lTask[w] = lTask[Dtor]

\* The thread is inside lock() of the pool mutex, or re-acquiring it on its
\* way out of wait(): lines 70, 71, 140, 120.
RequestsPool(th) == pc[th] \in {"w_lock", "w_woken", "p_lock", "d_relock"}

\* The thread is inside lock() of task t's mutex, or re-acquiring it on its
\* way out of wait(): lines 79, 86, 116, 118.
RequestsTask(th, t) ==
    /\ lTask[th] = t
    /\ pc[th] \in {"w_tlock1", "w_tlock2", "d_tlock", "d_woken", "x_lock", "x_woken"}

HoldsTask(th) == \E t \in Tasks : taskOwner[t] = th

\* Thread a cannot go on before thread b releases a mutex.
BlockedOn(a, b) ==
    /\ a # b
    /\ \/ RequestsPool(a) /\ poolOwner = b
       \/ \E t \in Tasks : RequestsTask(a, t) /\ taskOwner[t] = b

RECURSIVE BlockedChain(_, _)
BlockedChain(S, n) ==
    IF n = 0 THEN S
    ELSE BlockedChain(S \cup {b \in Threads : \E a \in S : BlockedOn(a, b)}, n - 1)

\* The threads that th waits for, directly or through other threads.
WaitsFor(th) == BlockedChain({b \in Threads : BlockedOn(th, b)}, Cardinality(Threads))

\* C26: lock ordering. No worker holds the pool mutex and a task mutex
\* together; a thread that holds the pool mutex and requests a task mutex is
\* the destructor; a thread that holds a task mutex requests no mutex; and
\* no thread waits, through any chain of held mutexes, for itself.
C26_LockOrdering ==
    /\ \A w \in Workers : ~(poolOwner = w /\ HoldsTask(w))
    /\ \A th \in Threads :
          (poolOwner = th /\ \E t \in Tasks : RequestsTask(th, t)) => th = Dtor
    /\ \A th \in Threads :
          HoldsTask(th) => (~RequestsPool(th) /\ \A t \in Tasks : ~RequestsTask(th, t))
    /\ \A th \in Threads : th \notin WaitsFor(th)

\* A chain of two blocked threads that is not a cycle: a worker waits for
\* the pool mutex held by the destructor, which waits in line 116 for the
\* mutex of the last queued task, still held by the worker that ran it.
C26_Witness ==
    \E w1, w2 \in Workers :
        /\ BlockedOn(w1, Dtor)
        /\ BlockedOn(Dtor, w2)
        /\ pc[Dtor] = "d_tlock"
        /\ WaitsFor(w1) = {Dtor, w2}

\* Entry i of pushOrder is the latest push of its task.
IsLastPush(i) == \A k \in (i + 1)..Len(pushOrder) : pushOrder[k] # pushOrder[i]

\* Entries i < j are the latest pushes of two tasks, and the later one is
\* completed while the earlier one is not.
Overtaken(i, j) ==
    /\ i < j
    /\ IsLastPush(i) /\ IsLastPush(j)
    /\ mCompleted[pushOrder[j]]
    /\ ~mCompleted[pushOrder[i]]

\* C27: completion order is not constrained by push order. A task pushed
\* later may be completed while a task pushed earlier is not (the witness);
\* what the pool does guarantee then is that the earlier task was dequeued
\* first and is in the hands of another worker, unless it is being pushed
\* again.
C27_CompletionUnordered ==
    \A i, j \in 1..Len(pushOrder) :
        Overtaken(i, j) =>
            /\ j <= Len(popOrder)
            /\ \/ \E w \in Workers :
                     /\ lTask[w] = pushOrder[i]
                     /\ pc[w] \in PreRunRegion \cup RunRegion
               \/ lTask[Producer] = pushOrder[i] /\ pc[Producer] \in {"p_lock", "p_push"}

\* Two workers: t1 was pushed before t2, t2 is completed and t1 is still
\* inside main().
C27_Witness ==
    /\ inSlaves >= 2
    /\ \E i, j \in 1..Len(pushOrder) :
          /\ Overtaken(i, j)
          /\ ~mCompleted[pushOrder[i]]
          /\ \E w \in Workers : lTask[w] = pushOrder[i] /\ pc[w] = "w_main"

\* The tasks whose mRunning flag is set.
RunningTasks == {t \in Tasks : mRunning[t]}

\* The number of dequeued entries whose run is over (line 88 done).
Completions == Len(popOrder) - Cardinality({w \in Workers : pc[w] \in PreRunRegion \cup RunRegion})

\* C28: the number of running tasks never exceeds the number of workers.
\* With one worker the pool is serial: at most one task is running, an
\* entry is dequeued only when every entry dequeued before is completed,
\* and the completed entries are always the first entries of the push
\* order, one more at each completion.
C28_SerialWithOneWorker ==
    /\ Cardinality(RunningTasks) <= inSlaves
    /\ inSlaves = 1 =>
          /\ Cardinality(RunningTasks) <= 1
          /\ Completions \in {Len(popOrder) - 1, Len(popOrder)}
          /\ Completions >= 0
          /\ Completions <= Len(pushOrder)
          /\ \A t \in Tasks :
                /\ doneCount[t] = Count(SubSeq(pushOrder, 1, Completions), t)
                /\ mRunning[t] => \E w \in Workers : Running(w, t)
          /\ pc[1] \in PreRunRegion =>
                \A t \in Tasks : doneCount[t] = Count(SubSeq(popOrder, 1, Len(popOrder) - 1), t)

\* One worker has completed two entries in push order and runs the third.
C28_Witness ==
    /\ inSlaves = 1
    /\ Len(pushOrder) = 3
    /\ Completions = 2
    /\ pc[1] = "w_main"
    /\ mRunning[pushOrder[3]]
    /\ pushOrder[1] # pushOrder[2]

\* C29: no stale completion after a re-push. Line 138 clears both flags
\* before line 141 appends the task: when the task is appended its flags are
\* false, and in every state mCompleted[t] implies that t has been run to
\* completion once for each of its pushes, the latest one included.
C29_NoStaleCompletion ==
    /\ pc[Producer] \in {"p_lock", "p_push"} =>
          (~mRunning[lTask[Producer]] /\ ~mCompleted[lTask[Producer]])
    /\ \A t \in Tasks :
          mCompleted[t] => (doneCount[t] >= 1 /\ doneCount[t] = Count(pushOrder, t))

\* A task that was run to completion has been pushed again; push has
\* returned, the task is queued and it does not show as completed.
C29_Witness ==
    \E t \in Tasks :
        /\ pc[Producer] = "p_idle"
        /\ Count(pushOrder, t) = 2
        /\ doneCount[t] = 1
        /\ Queued(t)
        /\ ~mCompleted[t]

\* The workers that hold a dequeued entry of t whose run is not over.
InHand(t) == {w \in Workers : lTask[w] = t /\ pc[w] \in PreRunRegion \cup RunRegion}

\* C30: exactly-once hand-off. Every entry appended by push is in the queue
\* or was popped, and every popped entry is held by one worker until its
\* run is over or was run to completion once; the queue changes only by the
\* append of push and by a pop that removes the head and hands it to the
\* one worker making the step; a worker keeps its entry until main() has
\* returned, and main() is entered and left once per entry.
C30_ExactlyOnceHandOff ==
    /\ [](\A t \in Tasks :
            /\ Count(pushOrder, t) = Count(mTasks, t) + Count(popOrder, t)
            /\ Count(popOrder, t) = Cardinality(InHand(t)) + doneCount[t])
    /\ [][mTasks' # mTasks =>
            \/ /\ pc[Producer] = "p_push"
               /\ mTasks' = Append(mTasks, lTask[Producer])
            \/ \E w \in Workers :
                  /\ pc[w] = "w_check" /\ pc'[w] = "w_unlock"
                  /\ mTasks = <<lTask'[w]>> \o mTasks'
                  /\ popOrder' = Append(popOrder, lTask'[w])
                  /\ \A v \in Workers \ {w} : lTask'[v] = lTask[v] /\ pc'[v] = pc[v]]_vars
    /\ [][\A w \in Workers :
            /\ lTask'[w] # lTask[w] => (pc[w] = "w_check" /\ mTasks' # mTasks)
            /\ (pc'[w] = "w_main" /\ pc[w] # "w_main") => pc[w] = "w_tunlock1"
            /\ (pc[w] = "w_main" /\ pc'[w] # "w_main") => pc'[w] = "w_tlock2"
            /\ (pc[w] \in PreRunRegion \cup RunRegion /\ pc'[w] \notin PreRunRegion \cup RunRegion) =>
                  (pc[w] = "w_setdone" /\ doneCount'[lTask[w]] = doneCount[lTask[w]] + 1)]_vars

\* Two workers have shared a full workload with a task pushed twice: the
\* queue is empty, every entry was run to completion, and the workers hold
\* different tasks from their last pops.
C30_Witness ==
    /\ inSlaves = NumWorkers
    /\ Len(pushOrder) = MaxPushes
    /\ mTasks = <<>>
    /\ \E t \in Tasks : Count(pushOrder, t) = 2
    /\ \A t \in Tasks : doneCount[t] = Count(pushOrder, t) /\ InHand(t) = {}
    /\ lTask[1] # 0 /\ lTask[2] # 0 /\ lTask[1] # lTask[2]

\* C31: mRunning and mCompleted of a task are never both true, whoever
\* holds the task's mutex and also when nobody does; the step that sets
\* mCompleted is taken by the worker that owns the task's mutex, clears
\* mRunning in the same critical section and keeps the mutex.
C31_NeverRunningAndCompleted ==
    /\ [](\A t \in Tasks : ~(mRunning[t] /\ mCompleted[t]))
    /\ [][\A t \in Tasks :
            (~mCompleted[t] /\ mCompleted'[t]) =>
                /\ taskOwner[t] \in Workers
                /\ taskOwner'[t] = taskOwner[t]
                /\ pc[taskOwner[t]] = "w_setdone"
                /\ lTask[taskOwner[t]] = t
                /\ mRunning[t] /\ ~mRunning'[t]]_vars

\* A caller holds the mutex of a task it waits on and reads its flags: the
\* task has completed its second run and is not running.
C31_Witness ==
    /\ pc[Waiter] = "x_check"
    /\ taskOwner[lTask[Waiter]] = Waiter
    /\ mCompleted[lTask[Waiter]] /\ ~mRunning[lTask[Waiter]]
    /\ runCount[lTask[Waiter]] = 2

\* C32: no pop from an empty queue. front()/pop() of lines 75-76 are
\* executed only by a worker that holds the pool mutex on a non-empty
\* queue, so no worker ever dequeues from an empty queue; a worker that
\* returns from mPool->wait() and finds the queue empty waits again.
C32_NoPopFromEmpty ==
    /\ [](~popEmpty /\ \A w \in Workers : pc[w] # "w_crash" /\ lTask[w] \in Tasks \cup {0})
    /\ [](\A w \in Workers :
            (pc[w] \in PreRunRegion \cup RunRegion \cup {"w_tunlock2"}) => lTask[w] \in Tasks)
    /\ [][\A w \in Workers :
            (lTask'[w] # lTask[w] \/ (pc[w] = "w_check" /\ pc'[w] \notin {"w_check", "w_wait", "w_top"})) =>
                /\ poolOwner = w /\ poolOwner' = w
                /\ mTasks # <<>>
                /\ lTask'[w] = Head(mTasks)]_vars
    /\ [][\A w \in Workers :
            (pc[w] = "w_check" /\ wakeLog[w] = "woken" /\ mTasks = <<>> /\ ~mCancel[w]
             /\ pc'[w] # "w_check") => (pc'[w] = "w_wait" /\ mTasks' = <<>>)]_vars

\* Two workers were woken for one pushed task: one took it after its
\* wake-up, the other found the queue empty and waits again.
C32_Witness ==
    \E w1, w2 \in Workers :
        /\ Len(pushOrder) = 1
        /\ wakeLog[w1] = "took"
        /\ wakeLog[w2] = "rewait"
        /\ pc[w2] = "w_wait"
        /\ lTask[w2] = 0

\* The native code that reports an unlock by a thread that is not the owner.
NotOwnerCode == IF excBuild = "win32" THEN ERROR_NOT_OWNER ELSE EPERM

\* C33 as stated: the not-owner code of the build gives eMutexNotOwned,
\* EDEADLK gives eWouldDeadLock and every other code eOtherError.
C33_Original ==
    excArg >= 0 =>
        excCode = (IF excArg = NotOwnerCode THEN "eMutexNotOwned"
                   ELSE IF excArg = EDEADLK THEN "eWouldDeadLock"
                   ELSE "eOtherError")

\* What convertNativeError returned for its latest argument, by build.
ConversionByBuild ==
    /\ excCode \in Codes /\ mCode \in Codes
    /\ excArg >= 0 =>
          /\ excCode = "eMutexNotOwned" <=> excArg = NotOwnerCode
          /\ excCode = "eWouldDeadLock" <=> (excBuild = "posix" /\ excArg = EDEADLK)
          /\ excCode = "eOtherError" <=>
                (excArg # NotOwnerCode /\ ~(excBuild = "posix" /\ excArg = EDEADLK))

\* C33, amended: convertNativeError is total. In a build without
\* PACC_THREADS_WIN32 it maps EPERM to eMutexNotOwned, EDEADLK to
\* eWouldDeadLock and every other code to eOtherError; in a build with
\* PACC_THREADS_WIN32 it maps ERROR_NOT_OWNER to eMutexNotOwned and every
\* other code, EDEADLK included, to eOtherError. getMessage names the code
\* MutexNotOwned, WouldDeadLock, Running or OtherError accordingly.
C33_ErrorTaxonomy ==
    /\ [](ConversionByBuild)
    /\ [][excMessage' # excMessage =>
            /\ excMessage'.name = (IF mCode = "eMutexNotOwned" THEN "MutexNotOwned"
                                   ELSE IF mCode = "eWouldDeadLock" THEN "WouldDeadLock"
                                   ELSE IF mCode = "eRunning" THEN "Running"
                                   ELSE "OtherError")
            /\ excMessage'.shown = (mNativeCode # 0)
            /\ excMessage'.native = mNativeCode
            /\ excMessage'.what = excWhat]_vars

\* In a build with PACC_THREADS_WIN32, EDEADLK was converted to eOtherError
\* and the exception built from it is named OtherError.
C33_Witness ==
    /\ excBuild = "win32"
    /\ excArg = EDEADLK
    /\ excCode = "eOtherError"
    /\ mNativeCode = EDEADLK
    /\ excMessage = [name |-> "OtherError", shown |-> TRUE, native |-> EDEADLK, what |-> "lock failed"]

\* A reported error is followed by the test of line 60, and a pass that
\* found no reason to stop is followed by receiveDatagram.
KeepsServing ==
    /\ (upc = "u_report" /\ upc' # upc) => (upc' = "u_test" /\ udpReported' = udpReported + 1)
    /\ (upc \in {"u_recv", "u_main"} /\ upc' # upc /\ udpLast' = "socketError") => upc' = "u_report"
    /\ (upc = "u_test" /\ ~lHalt /\ ~mHalt /\ upc' # upc) => upc' = "u_recv"

\* The call clears both flags, whatever was requested before.
EntryClearsHalt ==
    (upc = "idle" /\ upc' # upc) => (upc' = "u_test" /\ ~mHalt' /\ ~lHalt')

\* acceptDatagrams is left from line 60 with one of the flags set, and
\* lHalt is set only by a main() that returned true.
LeftOnHalt ==
    /\ upc = "u_test" /\ upc' = "u_returned"
    /\ lHalt \/ mHalt
    /\ lHalt => udpLast = "true"

\* acceptDatagrams is left by an exception of main() that line 67 does not catch.
LeftByException ==
    /\ upc = "u_main" /\ upc' = "u_escaped"
    /\ udpLast' = "otherError"

RECURSIVE Nesting(_, _)
Nesting(out, p) ==
    IF out = <<>> \/ ~p.ok THEN p
    ELSE LET t == Head(out)
             q == CASE t.k = "open" ->
                           [stack |-> Append(p.stack, t.v), inStart |-> TRUE, ok |-> ~p.inStart]
                    [] t.k = "gt" -> [p EXCEPT !.inStart = FALSE, !.ok = p.inStart]
                    [] t.k = "empty" ->
                           [stack |-> SubSeq(p.stack, 1, Len(p.stack) - 1), inStart |-> FALSE,
                            ok |-> p.inStart /\ p.stack # <<>>]
                    [] t.k = "close" ->
                           [stack |-> SubSeq(p.stack, 1, Len(p.stack) - 1), inStart |-> FALSE,
                            ok |-> /\ ~p.inStart
                                   /\ p.stack # <<>>
                                   /\ p.stack[Len(p.stack)] = t.v]
                    [] t.k = "text" -> [p EXCEPT !.ok = ~p.inStart]
                    [] OTHER -> p
         IN  Nesting(Tail(out), q)

OpenNames == [i \in DOMAIN mTags |-> mTags[i][1]]

WellNested ==
    LET p == Nesting(mStream, [stack |-> <<>>, inStart |-> FALSE, ok |-> TRUE])
    IN  /\ p.ok
        /\ p.stack = OpenNames
        /\ p.inStart = ~mClosed
        /\ Len(tagContent) = Len(mTags)

Closings(out) == {i \in DOMAIN out : out[i].k \in {"empty", "close"}}

Appended == Len(mStream') >= Len(mStream) /\ SubSeq(mStream', 1, Len(mStream)) = mStream

\* closeTag on an open tag: the top of the stack goes, and the last token
\* written is "/>" or the end tag of that very name.
ClosesLatest ==
    (xmlCalls' = xmlCalls + 1 /\ xmlOp' = "closeTag" /\ mTags # <<>>) =>
        /\ xpc' = "ready"
        /\ mTags' = SubSeq(mTags, 1, Len(mTags) - 1)
        /\ Appended
        /\ Cardinality(Closings(mStream')) = Cardinality(Closings(mStream)) + 1
        /\ mStream'[Len(mStream')] = IF tagContent[Len(mTags)]
                                     THEN Tok("close", mTags[Len(mTags)][1], 0)
                                     ELSE Piece("empty")

\* closeTag with no open tag: the assertion fails, nothing is popped or written.
AssertsOnEmpty ==
    (xmlCalls' = xmlCalls + 1 /\ xmlOp' = "closeTag" /\ mTags = <<>>) =>
        /\ xpc' = "aborted"
        /\ mTags' = <<>>
        /\ mStream' = mStream

\* closeAll closes every open tag and leaves the stack empty.
ClosesAll ==
    (xmlCalls' = xmlCalls + 1 /\ xmlOp' = "closeAll") =>
        /\ xpc' = "ready"
        /\ mTags' = <<>>
        /\ Appended
        /\ Cardinality(Closings(mStream')) = Cardinality(Closings(mStream)) + Len(mTags)

\* C35: XML::Streamer keeps its output well nested. After any calls of
\* openTag, insertAttribute, insertStringContent, closeTag and closeAll the
\* stream read back has exactly the tags of mTags open; closeTag closes the
\* tag opened last among those still open, with "/>" when that tag has
\* received no content and with its own end tag otherwise; closeAll leaves
\* the stack empty; closeTag on an empty stack fails its assertion and
\* neither pops nor writes.
C35_WellNested ==
    /\ [](WellNested)
    /\ [][ClosesLatest /\ AssertsOnEmpty /\ ClosesAll]_vars

\* <a>x<b/></a> has been written: b closed without content, a with content.
C35_Witness ==
    /\ xpc = "ready"
    /\ xmlOp = "closeTag"
    /\ mTags = <<>>
    /\ Len(mStream) >= 6
    /\ mStream[Len(mStream)] = Tok("close", <<"a">>, 0)
    /\ \E i, j \in DOMAIN mStream :
           /\ i < j
           /\ mStream[i].k = "text"
           /\ mStream[j] = Piece("empty")
           /\ \E h \in DOMAIN mStream : h < j /\ h > i /\ mStream[h] = Tok("open", <<"b">>, 0)

\* ---------------------------------------------------------------- QRandSequencer
\* The members at the latest getState, as generateSequence takes them.
Saved == [dim |-> qrSnap.dim, bases |-> qrSnap.bases, perms |-> qrSnap.perms,
          counters |-> qrSnap.counters, count |-> qrSnap.count, pc |-> qrSnap.pc]

\* The members are those of the latest getState, and so is the next sequence.
Restored ==
    /\ mDimensionality = qrSnap.dim
    /\ mBases = qrSnap.bases
    /\ mPermutations = qrSnap.perms
    /\ qCount = qrSnap.count
    /\ mCounters = qrSnap.counters
    /\ generateSequence(Sequencer).values = generateSequence(Saved).values
    /\ generateSequence(Sequencer).max = generateSequence(Saved).max

\* The counters of the sequencer are the digits of its count, lowest first.
CountersAreDigits ==
    /\ Len(mCounters) = Len(mBases)
    /\ \A i \in DOMAIN mBases : mCounters[i] = DigitsOf(qCount, mBases[i])

\* C36: QRandSequencer state round trip. For a sequencer on which reset has
\* been called and then generateSequence n times, setState of the string
\* getState returned restores dimensionality, bases, permutations, the
\* count n and the counters (the digits of n in each base, lowest first),
\* so that the next sequence generated is the one the sequencer would have
\* generated when getState was called.
C36_StateRoundTrip ==
    (qrOp = "setState" /\ qrSnap.reset) => (Restored /\ CountersAreDigits)

\* The round trip of a sequencer whose getState is not the empty string.
C36_RoundTripWithBases ==
    (qrOp = "setState" /\ qrSnap.reset /\ qrState # <<>>) => (Restored /\ CountersAreDigits)

\* A sequencer of two bases has been restored to the count 10 after it had
\* moved on or had been reset.
C36_Restored ==
    /\ qrOp = "setState"
    /\ qrSnap.reset
    /\ mDimensionality = 1
    /\ Len(mBases) = 2
    /\ qCount = 10
    /\ \E i \in DOMAIN mCounters : mCounters[i] = <<0, 1, 0, 1>>
    /\ qrOut.values # generateSequence(Sequencer).values

\* setState of the empty string, which getState returned for a sequencer
\* reset to dimensionality 0, on the sequencer since reset to dimensionality
\* 1: no bases are left, the dimensionality is still 1.
C36_StaleDimensionality ==
    /\ qrOp = "setState"
    /\ qrSnap.reset
    /\ qrState = <<>>
    /\ qrSnap.dim = 0
    /\ mDimensionality = 1
    /\ mBases = <<>>

====
